---- MODULE Spec2Model ----
(***************************************************************************)
(* Verification model of the UN MILEX extraction engine                    *)
(* (config.py, scraper.py, database.py) and of the runs of main.py.        *)
(*                                                                         *)
(* Texts are TLA+ strings; Python's str methods are written out over them  *)
(* character by character.  A document is kept in the form BeautifulSoup   *)
(* hands it to the code: a sequence of tables, a table a sequence of rows, *)
(* a row the sequence of its cells' get_text(strip=True) texts.            *)
(***************************************************************************)
EXTENDS Integers, Sequences, FiniteSets, TLC

VARIABLES
    MILEX_FIELDS,       \* config.MILEX_FIELDS: the taxonomy loaded at import
    pc,                 \* position of the running operation
    field_idx,          \* _create_tables: index of the next canonical name
    field_columns,      \* _create_tables: column identifiers built so far
    column_name,        \* argument of column_name_to_field_name
    found_name,         \* result of column_name_to_field_name
    text,               \* argument of a matcher call
    known,              \* list argument of a matcher call
    matched,            \* result of a matcher call
    table,              \* _parse_milex_table: the table of this iteration
    tbl,                \* _parse_milex_table: number of tables taken so far
    field_data,         \* _parse_milex_table: the mapping being built
    value_text,         \* argument of parse_numeric_value
    numeric_value,      \* result of parse_numeric_value
    soup,               \* _parse_page: the document as its queries answer
    page_data,          \* the record _parse_page builds, scrape_all receives
    single,             \* the run is scrape_single, not scrape_all
    resume,             \* scrape_all: argument resume
    current,            \* number of the country-year pair of the attempt
    interrupted,        \* MilexOrchestrator.interrupted
    error,              \* the exception being handled
    delays,             \* scrape_all: time.sleep(self.delay) calls made
    expenditures,       \* table expenditures: (country, year) -> row
    scraping_metadata,  \* table scraping_metadata: (country, year) -> row
    fetched,            \* the pairs whose page the run has requested
    rows_before,        \* the pairs with a row when the run started
    extractions,        \* the _parse_page calls in progress, by thread
    returned,           \* the records _parse_page returned, in order
    stored_rows,        \* table expenditures as SQLite holds it: its rows
    inserted            \* the records insert_or_update_expenditure was given

numVars == <<value_text, numeric_value>>
pageVars == <<soup, page_data>>
extractVars == <<extractions, returned>>
storeVars == <<stored_rows, inserted>>
runVars == <<single, resume, current, interrupted, error, delays,
             expenditures, scraping_metadata, fetched, rows_before>>

vars == <<MILEX_FIELDS, pc, field_idx, field_columns, column_name, found_name,
          text, known, matched, table, tbl, field_data, value_text,
          numeric_value, soup, page_data, single, resume, current,
          interrupted, error, delays, expenditures, scraping_metadata,
          fetched, rows_before, extractions, returned, stored_rows, inserted>>

\* Python's None
None == "<None>"

-----------------------------------------------------------------------------
(* Python str operations *)

UpperLetters == "ABCDEFGHIJKLMNOPQRSTUVWXYZ"
LowerLetters == "abcdefghijklmnopqrstuvwxyz"
Digits == "0123456789"
Whitespace == {" ", "\t", "\n", "\r", "\f"}

CharAt(s, i) == SubSeq(s, i, i)

\* position of character c in the alphabet string a, 0 when absent
IndexIn(a, c) ==
    IF \E i \in 1..Len(a) : CharAt(a, i) = c
    THEN CHOOSE i \in 1..Len(a) : CharAt(a, i) = c
    ELSE 0

\* the lower-case letter of each upper-case letter
LowerOf ==
    [c \in {CharAt(UpperLetters, i) : i \in 1..Len(UpperLetters)} |->
        CharAt(LowerLetters, IndexIn(UpperLetters, c))]

lower_char(c) == IF c \in DOMAIN LowerOf THEN LowerOf[c] ELSE c

RECURSIVE lower(_)
lower(s) == IF s = "" THEN "" ELSE lower_char(CharAt(s, 1)) \o lower(Tail(s))

RECURSIVE lstrip(_)
lstrip(s) ==
    IF s # "" /\ CharAt(s, 1) \in Whitespace THEN lstrip(Tail(s)) ELSE s

RECURSIVE rstrip(_)
rstrip(s) ==
    IF s # "" /\ CharAt(s, Len(s)) \in Whitespace
    THEN rstrip(SubSeq(s, 1, Len(s) - 1))
    ELSE s

strip(s) == rstrip(lstrip(s))

\* a in b
contains(b, a) ==
    \E i \in 1..(Len(b) - Len(a) + 1) : SubSeq(b, i, i + Len(a) - 1) = a

startswith(s, p) == Len(p) <= Len(s) /\ SubSeq(s, 1, Len(p)) = p

DigitChars == {CharAt(Digits, i) : i \in 1..Len(Digits)}

isdigit(c) == c \in DigitChars

Min(S) == CHOOSE x \in S : \A y \in S : x <= y

\* s.find(sub) counted from 1: the first position of sub in s, 0 when absent
find(s, sub) ==
    LET hits == {i \in 1..(Len(s) - Len(sub) + 1) :
                    SubSeq(s, i, i + Len(sub) - 1) = sub}
    IN  IF hits = {} THEN 0 ELSE Min(hits)

\* s.replace(old, new), old non-empty: leftmost occurrences, not overlapping
RECURSIVE replace(_, _, _)
replace(s, old, new) ==
    LET i == find(s, old)
    IN  IF i = 0 THEN s
        ELSE SubSeq(s, 1, i - 1) \o new
             \o replace(SubSeq(s, i + Len(old), Len(s)), old, new)

\* s.split()[0] of a text that does not start with whitespace
RECURSIVE first_token(_)
first_token(s) ==
    IF s = "" \/ CharAt(s, 1) \in Whitespace THEN ""
    ELSE CharAt(s, 1) \o first_token(Tail(s))

Range(f) == {f[i] : i \in DOMAIN f}

-----------------------------------------------------------------------------
(* Field taxonomy: milex_fields.json *)

Categories ==
    << "Strategic forces", "Land forces", "Naval forces", "Air forces",
       "Other Military Forces", "Central Support Administration and Command",
       "UN Peace Keeping", "Military Assistance and Cooperation",
       "Emergency Aid to Civilians", "Undistributed", "Total Expenditure" >>

\* a configuration file that spells one force group unlike the alias table
CategoriesRespelled == [Categories EXCEPT ![7] = "UN Peacekeeping"]

Subcategories ==
    << "1. Personnel", "1.1 Conscripts", "1.2 Active military personnel",
       "1.3 Reserves", "1.4 Civilian personnel", "1.5 Military pensions",
       "2. Operations and maintenance", "2.1 Materials for current use",
       "2.2 Maintenance and repair", "2.3 Purchased services", "2.4 Other",
       "3. Procurement and construction", "3.1 Procurement",
       "3.1.1 Aircraft and engines",
       "3.1.2 Missiles, including conventional warheads",
       "3.1.3 Nuclear warheads and bombs", "3.1.4 Ships and boats",
       "3.1.5 Armoured vehicles", "3.1.6 Artillery",
       "3.1.7 Other ordnance and ground-force weapons", "3.1.8 Ammunition",
       "3.1.9 Electronics and communications",
       "3.1.10 Non-armoured vehicles", "3.1.11 Other", "3.2 Construction",
       "3.2.1 Air bases, airfields", "3.2.2 Missile sites",
       "3.2.3 Naval bases and facilities", "3.2.4 Electronics, etc.",
       "3.2.5 Personnel facilities", "3.2.6 Other",
       "4. Research and development", "4.1 Basic and applied research",
       "4.2 Development, testing and evaluation", "5. Total (1+2+3+4)" >>

\* the configurations _load_milex_fields may return
Taxonomies ==
    { [categories |-> Categories, subcategories |-> Subcategories],
      [categories |-> CategoriesRespelled, subcategories |-> Subcategories] }

-----------------------------------------------------------------------------
(* config.py: canonical field names and storage identifiers *)

field_name(category, subcategory) == category \o " - " \o subcategory

get_all_field_names(fields) ==
    LET nc == Len(fields.categories)
        ns == Len(fields.subcategories)
    IN  [k \in 1..(nc * ns) |->
            field_name(fields.categories[((k - 1) \div ns) + 1],
                       fields.subcategories[((k - 1) % ns) + 1])]

ALL_FIELD_NAMES == get_all_field_names(MILEX_FIELDS)

\* identifiers cut to a length limit
field_name_to_column_name_truncated(name) ==
    LET c1 == replace(name, " - ", "_")
        c2 == replace(c1, ".", "_")
        c3 == replace(c2, " ", "_")
    IN  SubSeq(c3, 1, IF Len(c3) < 24 THEN Len(c3) ELSE 24)

field_name_to_column_name(name) ==
    LET c1 == replace(name, " - ", "_")
        c2 == replace(c1, ".", "_")
        c3 == replace(c2, " ", "_")
        c4 == replace(c3, ",", "")
        c5 == replace(c4, "(", "")
        c6 == replace(c5, ")", "")
        c7 == replace(c6, "-", "_")
        c8 == replace(c7, "/", "_")
    IN  replace(c8, "+", "plus")

\* the search starts at the second name
search_field_name_skipping_first(names, column) ==
    LET hits == {i \in 2..Len(names) :
                    field_name_to_column_name(names[i]) = column}
    IN  IF hits = {} THEN column ELSE names[Min(hits)]

\* the loop of column_name_to_field_name: the first name of the list, in
\* list order, whose identifier is the column; the column itself when none
search_field_name(names, column) ==
    LET hits == {i \in 1..Len(names) :
                    field_name_to_column_name(names[i]) = column}
    IN  IF hits = {} THEN column ELSE names[Min(hits)]

column_name_to_field_name(column) ==
    search_field_name(ALL_FIELD_NAMES, column)

-----------------------------------------------------------------------------
(* config.py: parse_numeric_value *)

\* An Optional[float] is kept as a record: the decimal fraction num / den,
\* den the least power of ten that makes num an integer, for a finite float;
\* the non-finite floats and the None of a failed parse are records too.
Inf == [inf |-> 1]
NegInf == [inf |-> -1]
NaN == [nan |-> TRUE]
NoValue == [none |-> TRUE]

RECURSIVE normalise(_, _)
normalise(num, den) ==
    IF num = 0 THEN [num |-> 0, den |-> 1]
    ELSE IF den > 1 /\ num % 10 = 0 THEN normalise(num \div 10, den \div 10)
         ELSE [num |-> num, den |-> den]

RECURSIVE pow10(_)
pow10(n) == IF n <= 0 THEN 1 ELSE 10 * pow10(n - 1)

\* digit ("_"? digit)*  : the digit groups of Python's float literal
RECURSIVE is_digitpart(_)
is_digitpart(s) ==
    /\ s # ""
    /\ isdigit(CharAt(s, 1))
    /\ \/ Len(s) = 1
       \/ is_digitpart(Tail(s))
       \/ Len(s) >= 3 /\ CharAt(s, 2) = "_" /\ is_digitpart(SubSeq(s, 3, Len(s)))

\* the integer written by the digits of s, underscores skipped
RECURSIVE digits_value(_, _)
digits_value(s, acc) ==
    IF s = "" THEN acc
    ELSE IF CharAt(s, 1) = "_" THEN digits_value(Tail(s), acc)
         ELSE digits_value(Tail(s), 10 * acc + IndexIn(Digits, CharAt(s, 1)) - 1)

RECURSIVE count_digits(_)
count_digits(s) ==
    IF s = "" THEN 0
    ELSE (IF CharAt(s, 1) = "_" THEN 0 ELSE 1) + count_digits(Tail(s))

is_sign(c) == c = "+" \/ c = "-"

unsigned(s) == IF s # "" /\ is_sign(CharAt(s, 1)) THEN Tail(s) ELSE s

\* float(s): the float a text denotes, NoValue where float raises ValueError
float(s) ==
    LET t == strip(s)
        negative == t # "" /\ CharAt(t, 1) = "-"
        body == lower(unsigned(t))
        e == find(body, "e")
        mant == IF e = 0 THEN body ELSE SubSeq(body, 1, e - 1)
        expo == IF e = 0 THEN "" ELSE SubSeq(body, e + 1, Len(body))
        dot == find(mant, ".")
        ip == IF dot = 0 THEN mant ELSE SubSeq(mant, 1, dot - 1)
        fp == IF dot = 0 THEN "" ELSE SubSeq(mant, dot + 1, Len(mant))
        mant_ok == /\ ip # "" \/ fp # ""
                   /\ ip = "" \/ is_digitpart(ip)
                   /\ fp = "" \/ is_digitpart(fp)
        expo_ok == e = 0 \/ is_digitpart(unsigned(expo))
        ev == IF e = 0 THEN 0
              ELSE (IF CharAt(expo, 1) = "-" THEN -1 ELSE 1)
                   * digits_value(unsigned(expo), 0)
        shift == ev - count_digits(fp)
        m == digits_value(ip \o fp, 0) * (IF negative THEN -1 ELSE 1)
    IN  IF body \in {"inf", "infinity"} THEN (IF negative THEN NegInf ELSE Inf)
        ELSE IF body = "nan" THEN NaN
        ELSE IF mant_ok /\ expo_ok
             THEN IF shift >= 0 THEN normalise(m * pow10(shift), 1)
                  ELSE normalise(m, pow10(-shift))
             ELSE NoValue

parse_numeric_value(value) ==
    IF value = "" \/ strip(value) = "" THEN NoValue
    ELSE float(replace(replace(value, ",", ""), " ", ""))

-----------------------------------------------------------------------------
(* scraper.py: category and subcategory matchers *)

\* the loop "for category in known_categories" from position i
RECURSIVE direct_category(_, _, _)
direct_category(text_lower, known_categories, i) ==
    IF i > Len(known_categories) THEN None
    ELSE LET category_lower == lower(known_categories[i])
         IN  IF \/ contains(text_lower, category_lower)
                \/ contains(category_lower, text_lower)
             THEN known_categories[i]
             ELSE direct_category(text_lower, known_categories, i + 1)

\* the dict literal, in insertion order
category_variations ==
    << <<"strategic", "Strategic forces">>,
       <<"land", "Land forces">>,
       <<"naval", "Naval forces">>,
       <<"navy", "Naval forces">>,
       <<"air", "Air forces">>,
       <<"other military", "Other Military Forces">>,
       <<"central support", "Central Support Administration and Command">>,
       <<"administration", "Central Support Administration and Command">>,
       <<"peacekeeping", "UN Peace Keeping">>,
       <<"un peace", "UN Peace Keeping">>,
       <<"assistance", "Military Assistance and Cooperation">>,
       <<"cooperation", "Military Assistance and Cooperation">>,
       <<"emergency", "Emergency Aid to Civilians">>,
       <<"undistributed", "Undistributed">>,
       <<"total", "Total Expenditure">> >>

\* the keyword has to be the whole text
RECURSIVE variation_category_exact(_, _)
variation_category_exact(text_lower, i) ==
    IF i > Len(category_variations) THEN None
    ELSE IF text_lower = category_variations[i][1]
         THEN category_variations[i][2]
         ELSE variation_category_exact(text_lower, i + 1)

\* the loop "for key, category in category_variations.items()" from entry i
RECURSIVE variation_category(_, _)
variation_category(text_lower, i) ==
    IF i > Len(category_variations) THEN None
    ELSE IF contains(text_lower, category_variations[i][1])
         THEN category_variations[i][2]
         ELSE variation_category(text_lower, i + 1)

\* the alias table is consulted before the taxonomy
match_category_alias_first(txt, known_categories) ==
    LET text_lower == strip(lower(txt))
        alias == variation_category(text_lower, 1)
    IN  IF alias # None THEN alias
        ELSE direct_category(text_lower, known_categories, 1)

match_category(txt, known_categories) ==
    LET text_lower == strip(lower(txt))
        direct == direct_category(text_lower, known_categories, 1)
    IN  IF direct # None THEN direct
        ELSE variation_category(text_lower, 1)

\* containment is tested in one direction only
RECURSIVE direct_subcategory_one_way(_, _, _)
direct_subcategory_one_way(text_lower, known_subcategories, i) ==
    IF i > Len(known_subcategories) THEN None
    ELSE IF contains(text_lower, lower(known_subcategories[i]))
         THEN known_subcategories[i]
         ELSE direct_subcategory_one_way(text_lower, known_subcategories, i + 1)

\* the loop "for subcategory in known_subcategories" of the direct matching
RECURSIVE direct_subcategory(_, _, _)
direct_subcategory(text_lower, known_subcategories, i) ==
    IF i > Len(known_subcategories) THEN None
    ELSE LET subcategory_lower == lower(known_subcategories[i])
         IN  IF \/ contains(text_lower, subcategory_lower)
                \/ contains(subcategory_lower, text_lower)
             THEN known_subcategories[i]
             ELSE direct_subcategory(text_lower, known_subcategories, i + 1)

\* the loop of the "totals" special case
RECURSIVE total_subcategory(_, _)
total_subcategory(known_subcategories, i) ==
    IF i > Len(known_subcategories) THEN None
    ELSE IF contains(lower(known_subcategories[i]), "5. total")
         THEN known_subcategories[i]
         ELSE total_subcategory(known_subcategories, i + 1)

\* the label has to be the number pattern itself
RECURSIVE prefix_subcategory_exact(_, _, _)
prefix_subcategory_exact(text_lower, known_subcategories, i) ==
    IF i > Len(known_subcategories) THEN None
    ELSE IF /\ isdigit(CharAt(known_subcategories[i], 1))
            /\ text_lower = lower(first_token(known_subcategories[i]))
         THEN known_subcategories[i]
         ELSE prefix_subcategory_exact(text_lower, known_subcategories, i + 1)

\* the loop over the number pattern at the start of each subcategory
RECURSIVE prefix_subcategory(_, _, _)
prefix_subcategory(text_lower, known_subcategories, i) ==
    IF i > Len(known_subcategories) THEN None
    ELSE IF /\ isdigit(CharAt(known_subcategories[i], 1))
            /\ startswith(text_lower,
                          lower(first_token(known_subcategories[i])))
         THEN known_subcategories[i]
         ELSE prefix_subcategory(text_lower, known_subcategories, i + 1)

\* the "totals" special case is missing
match_subcategory_no_total(txt, known_subcategories) ==
    LET text_lower == strip(lower(txt))
        direct == direct_subcategory(text_lower, known_subcategories, 1)
    IN  IF direct # None THEN direct
        ELSE prefix_subcategory(text_lower, known_subcategories, 1)

match_subcategory(txt, known_subcategories) ==
    LET text_lower == strip(lower(txt))
        direct == direct_subcategory(text_lower, known_subcategories, 1)
        total == IF text_lower = "totals" \/ text_lower = "total"
                 THEN total_subcategory(known_subcategories, 1)
                 ELSE None
    IN  IF direct # None THEN direct
        ELSE IF total # None THEN total
        ELSE prefix_subcategory(text_lower, known_subcategories, 1)

-----------------------------------------------------------------------------
(* scraper.py: _parse_milex_table *)

\* field_data[key] = value on a dict kept as a function
put(dict, key, value) ==
    [k \in DOMAIN dict \cup {key} |-> IF k = key THEN value ELSE dict[k]]

Indicators ==
    << "strategic", "land forces", "naval", "air forces", "total expenditure" >>

has_categories(row) ==
    \E i \in 1..Len(row) : \E k \in 1..Len(Indicators) :
        contains(lower(row[i]), lower(Indicators[k]))

\* only the first row is tried
header_index_first_row(rows) ==
    IF has_categories(rows[1]) THEN 1 ELSE 0

\* the first row is taken when no row shows a category
header_index_default(rows) ==
    IF has_categories(rows[1]) THEN 1
    ELSE IF Len(rows) >= 2 /\ has_categories(rows[2]) THEN 2
    ELSE 1

\* the loop "for idx in [0, 1]": the position of the header row among the
\* rows (counted from 1), 0 when header_row stays None
header_index(rows) ==
    IF has_categories(rows[1]) THEN 1
    ELSE IF Len(rows) >= 2 /\ has_categories(rows[2]) THEN 2
    ELSE 0

\* unmatched header cells are left out of the list
force_categories_compacted(header_cells) ==
    SelectSeq([i \in 1..(Len(header_cells) - 1) |->
                  IF header_cells[i + 1] # ""
                     /\ lower(header_cells[i + 1]) \notin {"", "cost category"}
                  THEN match_category(header_cells[i + 1],
                                      MILEX_FIELDS.categories)
                  ELSE None],
              LAMBDA category : category # None)

\* the list force_categories built from the cells of the header row
force_categories(header_cells) ==
    [i \in 1..(Len(header_cells) - 1) |->
        LET category_text == header_cells[i + 1]
        IN  IF /\ category_text # ""
               /\ lower(category_text) \notin {"", "cost category"}
            THEN match_category(category_text, MILEX_FIELDS.categories)
            ELSE None]

\* any(force_categories)
any(list) == \E i \in 1..Len(list) : list[i] # None /\ list[i] # ""

\* a name already in the mapping keeps its value
store_field_first_wins(data, name, value) ==
    IF name \in Range(ALL_FIELD_NAMES) /\ name \notin DOMAIN data
    THEN put(data, name, value)
    ELSE data

\* the assignment without its guard
store_field_unchecked(data, name, value) == put(data, name, value)

\* the assignment guarded by "if field_name in config.ALL_FIELD_NAMES"
store_field(data, name, value) ==
    IF name \in Range(ALL_FIELD_NAMES) THEN put(data, name, value) ELSE data

\* "if value:" in place of "if value is not None"
RECURSIVE parse_cells_truthy(_, _, _, _, _)
parse_cells_truthy(data, cells, categories, subcategory, col_idx) ==
    IF col_idx > Len(cells) - 1 \/ col_idx > Len(categories) THEN data
    ELSE LET category == categories[col_idx]
             value == parse_numeric_value(cells[col_idx + 1])
             stored ==
                 IF category = None \/ category = "" THEN data
                 ELSE IF value # NoValue /\ value # [num |-> 0, den |-> 1]
                      THEN store_field(data, field_name(category, subcategory),
                                       value)
                      ELSE data
         IN  parse_cells_truthy(stored, cells, categories, subcategory,
                                col_idx + 1)

\* the loop over cells[1:] from col_idx (counted from 1)
RECURSIVE parse_cells(_, _, _, _, _)
parse_cells(data, cells, categories, subcategory, col_idx) ==
    IF col_idx > Len(cells) - 1 \/ col_idx > Len(categories) THEN data
    ELSE LET category == categories[col_idx]
             value == parse_numeric_value(cells[col_idx + 1])
             stored ==
                 IF category = None \/ category = "" THEN data
                 ELSE IF value # NoValue
                      THEN store_field(data, field_name(category, subcategory),
                                       value)
                      ELSE data
         IN  parse_cells(stored, cells, categories, subcategory, col_idx + 1)

\* the body of the loop over the data rows
parse_row(data, cells, categories) ==
    IF Len(cells) < 2 THEN data
    ELSE IF cells[1] = "" THEN data
    ELSE IF lower(cells[1]) \in {"cost category", "force groups"} THEN data
    ELSE LET matched_subcategory ==
                 match_subcategory(cells[1], MILEX_FIELDS.subcategories)
         IN  IF matched_subcategory = None THEN data
             ELSE parse_cells(data, cells, categories, matched_subcategory, 1)

\* the loop ends at the first row whose label matches no subcategory
RECURSIVE parse_rows_stopping(_, _, _, _)
parse_rows_stopping(data, rows, r, categories) ==
    IF r > Len(rows) THEN data
    ELSE IF /\ Len(rows[r]) >= 2
            /\ rows[r][1] # ""
            /\ match_subcategory(rows[r][1], MILEX_FIELDS.subcategories) = None
         THEN data
         ELSE parse_rows_stopping(parse_row(data, rows[r], categories), rows,
                                  r + 1, categories)

\* the loop "for row in rows[data_start_idx:]" from row r
RECURSIVE parse_rows(_, _, _, _)
parse_rows(data, rows, r, categories) ==
    IF r > Len(rows) THEN data
    ELSE parse_rows(parse_row(data, rows[r], categories), rows, r + 1,
                    categories)

\* the body of the loop "for table in tables"
parse_table(data, rows) ==
    IF Len(rows) < 2 THEN data
    ELSE LET h == header_index(rows)
         IN  IF h = 0 THEN data
             ELSE LET categories == force_categories(rows[h])
                  IN  IF ~any(categories) THEN data
                      ELSE parse_rows(data, rows, h + 1, categories)

-----------------------------------------------------------------------------
(* database.py: the field columns of the expenditures table *)

\* values of the variables an operation does not use
FieldsIdle ==
    /\ field_idx = 0 /\ field_columns = <<>>
    /\ column_name = None /\ found_name = None
MatchIdle == text = None /\ known = <<>> /\ matched = None
TableIdle == table = << >> /\ tbl = 0 /\ field_data = << >>
NumericIdle == value_text = None /\ numeric_value = NoValue
PageIdle == soup = << >> /\ page_data = << >>
ExtractIdle == extractions = << >> /\ returned = << >>
StoreIdle == stored_rows = {} /\ inserted = << >>
RunIdle ==
    /\ single = FALSE /\ resume = FALSE /\ current = 0 /\ interrupted = FALSE
    /\ error = None /\ delays = 0
    /\ expenditures = << >> /\ scraping_metadata = << >>
    /\ fetched = << >> /\ rows_before = {}

InitFields ==
    /\ MILEX_FIELDS \in Taxonomies
    /\ pc = "create_tables"
    /\ field_idx = 1 /\ field_columns = <<>>
    /\ column_name = None /\ found_name = None
    /\ MatchIdle /\ TableIdle /\ NumericIdle /\ PageIdle /\ RunIdle
    /\ ExtractIdle /\ StoreIdle

\* one iteration of the loop that builds field_columns
CreateTablesColumn ==
    /\ pc = "create_tables"
    /\ field_idx <= Len(ALL_FIELD_NAMES)
    /\ field_columns' = Append(field_columns,
                               field_name_to_column_name(ALL_FIELD_NAMES[field_idx]))
    /\ field_idx' = field_idx + 1
    /\ UNCHANGED <<MILEX_FIELDS, pc, column_name, found_name, text, known,
                   matched, table, tbl, field_data, numVars, pageVars, runVars,
                   storeVars, extractVars>>

\* the loop is over: CREATE TABLE is executed with the columns built
CreateTablesExecute ==
    /\ pc = "create_tables"
    /\ field_idx > Len(ALL_FIELD_NAMES)
    /\ pc' = "tables_created"
    /\ UNCHANGED <<MILEX_FIELDS, field_idx, field_columns, column_name,
                   found_name, text, known, matched, table, tbl, field_data,
                   numVars, pageVars, runVars, storeVars, extractVars>>

\* a column of the expenditures table that is no field column
BaseColumns == {"country", "page_link"}

\* column_name_to_field_name applied to a column of the table
ColumnLookup ==
    /\ pc = "tables_created"
    /\ \E c \in Range(field_columns) \cup BaseColumns :
          /\ column_name' = c
          /\ found_name' = column_name_to_field_name(c)
    /\ pc' = "looked_up"
    /\ UNCHANGED <<MILEX_FIELDS, field_idx, field_columns, text, known,
                   matched, table, tbl, field_data, numVars, pageVars, runVars,
                   storeVars, extractVars>>

NextFields == CreateTablesColumn \/ CreateTablesExecute \/ ColumnLookup

SpecFields == InitFields /\ [][NextFields]_vars

\* C3: field_name_to_column_name is injective over the canonical field
\* names: the columns built for the expenditures table are pairwise
\* distinct, one per canonical name.
C3_Injective ==
    /\ Len(field_columns) <= Len(ALL_FIELD_NAMES)
    /\ \A i \in 1..Len(field_columns) :
          field_columns[i] \notin {field_columns[j] : j \in 1..(i - 1)}

\* every canonical name has received its column
C3_Witness ==
    /\ pc = "tables_created"
    /\ Len(field_columns) = Len(ALL_FIELD_NAMES)
    /\ Len(field_columns) > 1

\* C4: looking up the column of a canonical name gives back that name.
C4_RoundTrip ==
    pc = "looked_up" =>
        \A i \in 1..Len(field_columns) :
            field_columns[i] = column_name => found_name = ALL_FIELD_NAMES[i]

\* the lookup of the last canonical name's column has run
C4_Witness ==
    /\ pc = "looked_up"
    /\ column_name = field_columns[Len(field_columns)]
    /\ found_name = ALL_FIELD_NAMES[Len(ALL_FIELD_NAMES)]

-----------------------------------------------------------------------------
(* _parse_milex_table over the tables of a document, one table at a time *)

MaxTables == 2      \* tables in a document
MaxDataRows == 2    \* rows after the header row of a table
MaxCols == 2        \* cells after the first cell of a row

HeaderTexts == {"Land forces", "UN Peace Keeping", "Notes", "Cost category", ""}
LabelTexts == {"1. Personnel", "Remarks", ""}
ValueTexts == {"42,000", "0", "N/A"}

\* the rows made of a first cell and n further cells
RowsOf(first, texts, n) == { <<first>> \o cells : cells \in [1..n -> texts] }

SeqsUpTo(S, n) == UNION { [1..k -> S] : k \in 0..n }

\* header rows with n cells after the first
HeaderRows(n) == RowsOf("", HeaderTexts, n)

\* data rows under such a header: a label and n values, a label alone, and
\* a row with one value more than the header has cells
DataRows(n) ==
    UNION { RowsOf(label, ValueTexts, n) : label \in LabelTexts }
    \cup { <<"1. Personnel">> }
    \cup { [i \in 1..(n + 2) |-> IF i = 1 THEN "1. Personnel" ELSE "42,000"] }

\* tables of a header row with n cells after the first and up to r data rows
TablesOf(n, r) ==
    { <<header>> \o rows :
        header \in HeaderRows(n), rows \in SeqsUpTo(DataRows(n), r) }

\* rows stacked under a header of one column
StackedRows ==
    { <<"1. Personnel", "42,000">>, <<"1. Personnel", "0">>,
      <<"1. Personnel", "N/A">>, <<"Remarks", "42,000">> }

\* tables of a one-column header row and 2..r stacked rows
StackedTables(r) ==
    { <<header>> \o rows :
        header \in HeaderRows(1),
        rows \in UNION { [1..k -> StackedRows] : k \in 2..r } }

\* rows that stand above the header row of a table: a row of figures, a
\* label row over a row of figures, a row of headings, a caption row
RowsAbove ==
    { << <<"1.1 Conscripts", "42,000">> >>,
      << <<"Force groups", "">>, <<"1.1 Conscripts", "42,000">> >>,
      << <<"", "Land forces">> >>,
      << <<"Land forces budget", "">> >> }

LabelledTables ==
    { above \o rows : above \in RowsAbove, rows \in TablesOf(1, 1) }

\* the first table of a document
Tables ==
    UNION { TablesOf(n, 1) : n \in 1..MaxCols }
        \cup StackedTables(MaxDataRows) \cup LabelledTables

\* the tables after the first: one column of values, one data row
FurtherTables == TablesOf(1, 1)

EmptyDict == << >>

InitTable ==
    /\ MILEX_FIELDS \in Taxonomies
    /\ pc = "tables"
    /\ table = << >> /\ tbl = 0 /\ field_data = EmptyDict
    /\ FieldsIdle /\ MatchIdle /\ NumericIdle /\ PageIdle /\ RunIdle
    /\ ExtractIdle /\ StoreIdle

\* "for table in tables": the next table of the document
NextTable ==
    /\ pc = "tables"
    /\ tbl < MaxTables
    /\ table' \in (IF tbl = 0 THEN Tables ELSE FurtherTables)
    /\ tbl' = tbl + 1
    /\ pc' = "table"
    /\ UNCHANGED <<MILEX_FIELDS, field_idx, field_columns, column_name,
                   found_name, text, known, matched, field_data, numVars,
                   pageVars, runVars, storeVars, extractVars>>

\* the loop body on that table
ParseTable ==
    /\ pc = "table"
    /\ field_data' = parse_table(field_data, table)
    /\ pc' = "table_done"
    /\ UNCHANGED <<MILEX_FIELDS, field_idx, field_columns, column_name,
                   found_name, text, known, matched, table, tbl, numVars,
                   pageVars, runVars, storeVars, extractVars>>

\* back to the head of the loop
EndTable ==
    /\ pc = "table_done"
    /\ table' = << >>
    /\ pc' = "tables"
    /\ UNCHANGED <<MILEX_FIELDS, field_idx, field_columns, column_name,
                   found_name, text, known, matched, tbl, field_data, numVars,
                   pageVars, runVars, storeVars, extractVars>>

\* no table is left: return field_data
ReturnFieldData ==
    /\ pc = "tables"
    /\ pc' = "returned"
    /\ UNCHANGED <<MILEX_FIELDS, field_idx, field_columns, column_name,
                   found_name, text, known, matched, table, tbl, field_data,
                   numVars, pageVars, runVars, storeVars, extractVars>>

NextParse == NextTable \/ ParseTable \/ EndTable \/ ReturnFieldData

SpecTable == InitTable /\ [][NextParse]_vars

\* the header row of the table being parsed
Header == table[header_index(table)]

\* a header cell that gives its column no category: empty, "cost category",
\* or a text no category is matched to
Unassigned(cell) ==
    \/ cell = ""
    \/ lower(cell) = "cost category"
    \/ match_category(cell, MILEX_FIELDS.categories) = None

\* the table has a header row with at least one assigned column
Qualifies ==
    /\ Len(table) >= 2
    /\ header_index(table) > 0
    /\ \E i \in 2..Len(Header) : ~Unassigned(Header[i])

DataRowIndexes == (header_index(table) + 1)..Len(table)

\* the subcategory a first cell resolves to
Resolved(label) == match_subcategory(label, MILEX_FIELDS.subcategories)

\* the field name of cell i of data row r, given the subcategory of its row
CellField(r, i, subcategory) ==
    field_name(match_category(Header[i], MILEX_FIELDS.categories), subcategory)

\* cell i >= 2 of data row r, in a row of that subcategory, has an assigned
\* header cell above it, holds a number and composes a canonical name
Yields(r, i, subcategory) ==
    /\ i <= Len(Header)
    /\ ~Unassigned(Header[i])
    /\ subcategory # None
    /\ parse_numeric_value(table[r][i]) # NoValue
    /\ CellField(r, i, subcategory) \in Range(ALL_FIELD_NAMES)

\* cell (r2, i2) comes after cell (r, i) in document order
Later(r2, i2, r, i) == r2 > r \/ (r2 = r /\ i2 > i)

ExampleTable == << <<"", "Land forces">>, <<"1. Personnel", "42,000">> >>

ExampleFieldData ==
    [k \in {"Land forces - 1. Personnel"} |-> [num |-> 42000, den |-> 1]]

\* C1: every key of field_data is a canonical field name, while the tables
\* are parsed and when field_data is returned.
C1_KeysCanonical == DOMAIN field_data \subseteq Range(ALL_FIELD_NAMES)

\* a numeric cell under a header that the alias table resolved to a
\* category the taxonomy spells differently has been parsed and dropped
C1_Witness ==
    /\ pc = "table_done"
    /\ table = << <<"", "UN Peace Keeping", "Land forces">>,
                  <<"1. Personnel", "42,000", "0">> >>
    /\ match_category("UN Peace Keeping", MILEX_FIELDS.categories)
          \notin Range(MILEX_FIELDS.categories)
    /\ DOMAIN field_data = {"Land forces - 1. Personnel"}

\* C2 as claimed: in a qualifying table, every numeric cell of a data row
\* whose first cell the subcategory matcher resolves, under a header cell
\* resolved to a category, is in field_data under its canonical name, with
\* its value unless a later cell wrote the same name.
C2_AsClaimed ==
    (pc = "table_done" /\ Qualifies) =>
        \A r \in DataRowIndexes : \A i \in 2..Len(table[r]) :
            LET s == Resolved(table[r][1])
                k == CellField(r, i, s)
            IN  Yields(r, i, s) =>
                    /\ k \in DOMAIN field_data
                    /\ \/ field_data[k] = parse_numeric_value(table[r][i])
                       \/ \E r2 \in DataRowIndexes : \E i2 \in 2..Len(table[r2]) :
                             /\ Later(r2, i2, r, i)
                             /\ Yields(r2, i2, Resolved(table[r2][1]))
                             /\ CellField(r2, i2, Resolved(table[r2][1])) = k

\* the subcategory of a data row: none for an empty first cell
RowSubcategory(row) == IF row[1] = "" THEN None ELSE Resolved(row[1])

\* C2: in a qualifying table, every numeric cell of a data row whose first
\* cell is not empty and resolves to a subcategory, under a header cell
\* resolved to a category, is in field_data under its canonical name, with
\* its value unless a later cell wrote the same name; the example table
\* alone yields exactly its one entry.
C2_CellsStored ==
    /\ (pc = "table_done" /\ Qualifies) =>
          \A r \in DataRowIndexes : \A i \in 2..Len(table[r]) :
              LET s == RowSubcategory(table[r])
                  k == CellField(r, i, s)
              IN  Yields(r, i, s) =>
                      /\ k \in DOMAIN field_data
                      /\ \/ field_data[k] = parse_numeric_value(table[r][i])
                         \/ \E r2 \in DataRowIndexes :
                              \E i2 \in 2..Len(table[r2]) :
                               /\ Later(r2, i2, r, i)
                               /\ Yields(r2, i2, RowSubcategory(table[r2]))
                               /\ CellField(r2, i2, RowSubcategory(table[r2])) = k
    /\ (pc = "table_done" /\ tbl = 1 /\ table = ExampleTable) =>
          field_data = ExampleFieldData

\* the example table has been parsed
C2_Witness ==
    /\ pc = "table_done"
    /\ tbl = 1
    /\ table = ExampleTable
    /\ Qualifies
    /\ field_data = ExampleFieldData

\* C10: parsing a table writes a name only from a cell whose own header
\* cell, at the same position, is assigned the category of that name; a
\* column whose header cell is empty, "cost category" or unmatched writes
\* nothing.
C10_UnassignedColumns ==
    [][pc = "table" =>
        \A k \in DOMAIN field_data' :
            (k \notin DOMAIN field_data \/ field_data[k] # field_data'[k]) =>
                /\ Qualifies
                /\ \E r \in DataRowIndexes : \E i \in 2..Len(table[r]) :
                      /\ Yields(r, i, RowSubcategory(table[r]))
                      /\ CellField(r, i, RowSubcategory(table[r])) = k
                      /\ parse_numeric_value(table[r][i]) = field_data'[k]]_vars

\* a table whose unassigned column stands left of an assigned one: only
\* the assigned column's cell is in field_data
C10_Witness ==
    /\ pc = "table_done"
    /\ tbl = 1
    /\ table = << <<"", "Notes", "Land forces">>,
                  <<"1. Personnel", "42,000", "0">> >>
    /\ Unassigned(Header[2]) /\ ~Unassigned(Header[3])
    /\ field_data =
          [k \in {"Land forces - 1. Personnel"} |-> [num |-> 0, den |-> 1]]

\* the texts that mark a row of force categories
CategoryIndicators ==
    {"strategic", "land forces", "naval", "air forces", "total expenditure"}

\* some cell of the row has an indicator inside its text, in any letter case
ShowsIndicator(row) ==
    \E i \in 1..Len(row) : \E s \in CategoryIndicators :
        contains(lower(row[i]), s)

\* row 0 when it shows an indicator, otherwise row 1 when that one does
\* (rows counted from 1 here), 0 when neither does
ChosenRow ==
    IF ShowsIndicator(table[1]) THEN 1
    ELSE IF ShowsIndicator(table[2]) THEN 2
    ELSE 0

\* the cells <<r, i>> below row h that produce an entry when row h is the
\* header row: a label that is not empty and resolves, a header cell at the
\* same position that is assigned, a text that parses, a canonical name
ProducedUnder(h) ==
    { c \in UNION { {<<r, i>> : i \in 2..Len(table[r])} :
                      r \in (h + 1)..Len(table) } :
        /\ c[2] <= Len(table[h])
        /\ ~Unassigned(table[h][c[2]])
        /\ RowSubcategory(table[c[1]]) # None
        /\ parse_numeric_value(table[c[1]][c[2]]) # NoValue
        /\ field_name(match_category(table[h][c[2]], MILEX_FIELDS.categories),
                      RowSubcategory(table[c[1]])) \in Range(ALL_FIELD_NAMES) }

\* the name cell c writes under header row h
FieldUnder(h, c) ==
    field_name(match_category(table[h][c[2]], MILEX_FIELDS.categories),
               RowSubcategory(table[c[1]]))

\* the names whose entry the step adds or changes
WrittenKeys ==
    { k \in DOMAIN field_data' :
        k \notin DOMAIN field_data \/ field_data[k] # field_data'[k] }

\* C11: in a table of at least two rows the header row is row 0 when a cell
\* of row 0 contains an indicator, otherwise row 1 when a cell of row 1
\* does; the data rows are exactly the rows after it: every entry written
\* comes from a cell below the chosen row, under the chosen row's cells,
\* every producing cell below it has its name in field_data, and a table
\* where neither row shows an indicator writes nothing.
C11_HeaderRow ==
    [][(pc = "table" /\ Len(table) >= 2) =>
        /\ ChosenRow = 0 => field_data' = field_data
        /\ ChosenRow > 0 =>
              /\ \A k \in WrittenKeys :
                    \E c \in ProducedUnder(ChosenRow) :
                        /\ FieldUnder(ChosenRow, c) = k
                        /\ parse_numeric_value(table[c[1]][c[2]])
                              = field_data'[k]
              /\ \A c \in ProducedUnder(ChosenRow) :
                    FieldUnder(ChosenRow, c) \in DOMAIN field_data']_vars

\* a row of figures above the header row has left nothing in field_data,
\* the row below the header row has
C11_Witness ==
    /\ pc = "table_done"
    /\ tbl = 1
    /\ table = << <<"1.1 Conscripts", "42,000">>, <<"", "Land forces">>,
                  <<"1. Personnel", "0">> >>
    /\ ChosenRow = 2
    /\ field_data =
          [k \in {"Land forces - 1. Personnel"} |-> [num |-> 0, den |-> 1]]

\* a non-first cell of the row resolves to a category
ResolvesCategory(row) ==
    \E i \in 2..Len(row) :
        /\ row[i] # ""
        /\ lower(row[i]) # "cost category"
        /\ match_category(row[i], MILEX_FIELDS.categories) # None

\* one of the first two rows shows an indicator and the header row has a
\* non-first cell that resolves to a category
MeetsBoth ==
    /\ Len(table) >= 2
    /\ ChosenRow > 0
    /\ ResolvesCategory(table[ChosenRow])

\* C12: a table changes field_data only if one of its first two rows shows
\* a category indicator and a non-first cell of its header row resolves to
\* a category; field_data is empty before the first table, so a document
\* without such a table returns an empty field_data.
C12_OnlyQualifying ==
    /\ [](tbl = 0 => field_data = EmptyDict)
    /\ [][(pc = "table" /\ ~MeetsBoth) =>
            field_data' = field_data]_vars

\* a table whose heading resolves to a category but shows no indicator has
\* been passed over, its figure not stored
C12_Witness ==
    /\ pc = "table_done"
    /\ tbl = 1
    /\ table = << <<"", "UN Peace Keeping">>, <<"1. Personnel", "42,000">> >>
    /\ match_category("UN Peace Keeping", MILEX_FIELDS.categories)
          \in Range(MILEX_FIELDS.categories)
    /\ ~MeetsBoth
    /\ field_data = EmptyDict

\* the table without the data rows whose label resolves to no subcategory
Pruned ==
    LET h == header_index(table)
        kept == { r \in 1..Len(table) :
                    r <= h \/ RowSubcategory(table[r]) # None }
        nth(n) == CHOOSE r \in kept :
                      Cardinality({q \in kept : q < r}) = n - 1
    IN  [n \in 1..Cardinality(kept) |-> table[nth(n)]]

\* C13: a data row whose label resolves to no subcategory and a cell whose
\* text parses to no number leave no entry and stop nothing: the table is
\* parsed to the same field_data as the table without its unresolved rows,
\* in any table of the document, and every producing cell to the right of
\* a cell that does not parse has its name in field_data.
C13_SkipsAndContinues ==
    [][(pc = "table" /\ Qualifies) =>
        /\ field_data' = parse_table(field_data, Pruned)
        /\ \A r \in DataRowIndexes : \A i \in 2..Len(table[r]) :
              parse_numeric_value(table[r][i]) = NoValue =>
                  /\ \A k \in WrittenKeys :
                        \E c \in ProducedUnder(header_index(table)) :
                            /\ c # <<r, i>>
                            /\ FieldUnder(header_index(table), c) = k
                  /\ \A c \in ProducedUnder(header_index(table)) :
                        (c[1] = r /\ c[2] > i) =>
                            FieldUnder(header_index(table), c)
                                \in DOMAIN field_data']_vars

\* an unresolved row above a resolved one: only the resolved row is stored
C13_Witness ==
    /\ pc = "table_done"
    /\ tbl = 1
    /\ table = << <<"", "Land forces">>, <<"Remarks", "42,000">>,
                  <<"1. Personnel", "0">> >>
    /\ Resolved("Remarks") = None
    /\ field_data =
          [k \in {"Land forces - 1. Personnel"} |-> [num |-> 0, den |-> 1]]

\* the cells of the table that produce name k
CellsOf(k) ==
    { c \in ProducedUnder(header_index(table)) :
        FieldUnder(header_index(table), c) = k }

\* C15: a name produced more than once keeps the value produced last in
\* document order: after a table is parsed, a name its cells produce has
\* the value of the last of those cells (rows top to bottom, cells left to
\* right), whatever earlier tables stored, and a name its cells do not
\* produce keeps what earlier tables stored.
C15_LastWins ==
    [][(pc = "table" /\ Qualifies) =>
        \A k \in DOMAIN field_data \cup DOMAIN field_data' :
            IF CellsOf(k) = {}
            THEN k \in DOMAIN field_data /\ k \in DOMAIN field_data'
                 /\ field_data'[k] = field_data[k]
            ELSE \E c \in CellsOf(k) :
                    /\ \A d \in CellsOf(k) :
                          d = c \/ Later(c[1], c[2], d[1], d[2])
                    /\ k \in DOMAIN field_data'
                    /\ field_data'[k]
                          = parse_numeric_value(table[c[1]][c[2]])]_vars

\* two rows of one table produce the same name: the lower row's value stays
C15_Witness ==
    /\ pc = "table_done"
    /\ tbl = 1
    /\ table = << <<"", "Land forces">>, <<"1. Personnel", "42,000">>,
                  <<"1. Personnel", "0">> >>
    /\ Cardinality(CellsOf("Land forces - 1. Personnel")) = 2
    /\ field_data =
          [k \in {"Land forces - 1. Personnel"} |-> [num |-> 0, den |-> 1]]

-----------------------------------------------------------------------------
(* The matchers as functions of a text and a list *)

\* header texts handed to _match_category
CategoryTexts ==
    { "Naval Forces", "Navy", "Notes", "Land forces", "LAND", "forces",
      "Strategic", "Naval air forces", "Air and naval", "Air wing",
      "Peacekeeping operations", "UN Peace Keeping", "UN peacekeeping",
      "Administration and cooperation", "Other military", "Emergency",
      "Undistributed costs", "Total", "Grand total expenditure",
      "Cost category", "Remarks (2)", " Air forces ", "naval\t", "" }

\* row labels handed to _match_subcategory
SubcategoryTexts ==
    { "1. Personnel", "Personnel", "1.1 Conscripts", "1.1 Drafted soldiers",
      "1.5 Retirement pay", "1", "10. Levies", "2. O&M", "2.4 Misc.",
      "3.1.1 Planes", "3.1.10 Trucks", "3.2 Building works", "Other",
      "4.2 Trials", "5. Sum of 1 to 4", "5. Total (1+2+3+4)", "6. Debt",
      "Total", "total", "TOTAL", "tOtAl", "Totals", "totals", "TOTALS",
      "Total costs", "Remarks", "Force groups", " 1.2 Regulars ", "" }

\* lists other than the configured ones
OtherCategoryLists ==
    { << "Land forces", "Air forces" >>,
      << "Armed forces", "Land forces", "Air forces", "Naval forces" >>,
      << >> }

OtherSubcategoryLists ==
    { << "1. Personnel", "1.1 Conscripts", "5. Total (1+2+3+4)" >>,
      << "1.1 Conscripts", "1. Personnel", "2. Operations and maintenance" >>,
      << "Personnel", "Equipment" >>,
      << >> }

InitMatch ==
    /\ MILEX_FIELDS \in Taxonomies
    /\ \/ /\ pc = "match_category"
          /\ text \in CategoryTexts
          /\ known \in {MILEX_FIELDS.categories} \cup OtherCategoryLists
       \/ /\ pc = "match_subcategory"
          /\ text \in SubcategoryTexts
          /\ known \in {MILEX_FIELDS.subcategories} \cup OtherSubcategoryLists
    /\ matched = None
    /\ FieldsIdle /\ TableIdle /\ NumericIdle /\ PageIdle /\ RunIdle
    /\ ExtractIdle /\ StoreIdle

MatchCategory ==
    /\ pc = "match_category"
    /\ matched' = match_category(text, known)
    /\ pc' = "category_matched"
    /\ UNCHANGED <<MILEX_FIELDS, field_idx, field_columns, column_name,
                   found_name, text, known, table, tbl, field_data, numVars,
                   pageVars, runVars, storeVars, extractVars>>

MatchSubcategory ==
    /\ pc = "match_subcategory"
    /\ matched' = match_subcategory(text, known)
    /\ pc' = "subcategory_matched"
    /\ UNCHANGED <<MILEX_FIELDS, field_idx, field_columns, column_name,
                   found_name, text, known, table, tbl, field_data, numVars,
                   pageVars, runVars, storeVars, extractVars>>

NextMatch == MatchCategory \/ MatchSubcategory

SpecMatch == InitMatch /\ [][NextMatch]_vars

\* name i of the list and the trimmed, lowered text contain one another
DirectAt(i) ==
    LET t == lower(strip(text))
    IN  contains(t, lower(known[i])) \/ contains(lower(known[i]), t)

NoDirect == \A i \in 1..Len(known) : ~DirectAt(i)

\* alias entry i has its keyword inside the lowered text
AliasAt(i) == contains(lower(text), category_variations[i][1])

\* C5: when some category and the header text contain one another
\* (case-insensitively, text trimmed), _match_category returns the first
\* such category in list order, whatever the alias table says.
C5_DirectCategory ==
    pc = "category_matched" =>
        /\ \A i \in 1..Len(known) :
              (DirectAt(i) /\ \A j \in 1..(i - 1) : ~DirectAt(j))
                  => matched = known[i]
        /\ (text = "Naval Forces" /\ known = MILEX_FIELDS.categories)
              => matched = "Naval forces"

\* a direct match that the alias table would have resolved differently
C5_Witness ==
    /\ pc = "category_matched"
    /\ text = "Naval air forces"
    /\ known = MILEX_FIELDS.categories
    /\ matched = "Air forces"
    /\ \E i \in 1..Len(category_variations) :
          AliasAt(i) /\ category_variations[i][2] # matched

\* C6: without a direct match, _match_category returns the value of the
\* first alias entry, in table order, whose keyword is inside the lowered
\* text, and None when there is no such entry.
C6_AliasCategory ==
    (pc = "category_matched" /\ NoDirect) =>
        /\ \A i \in 1..Len(category_variations) :
              (AliasAt(i) /\ \A j \in 1..(i - 1) : ~AliasAt(j))
                  => matched = category_variations[i][2]
        /\ (\A i \in 1..Len(category_variations) : ~AliasAt(i))
              => matched = None
        /\ text = "Navy" => matched = "Naval forces"
        /\ text = "Notes" => matched = None

\* an alias resolution where two keywords are inside the text and the
\* earlier table entry is not the earlier one in the text
C6_Witness ==
    /\ pc = "category_matched"
    /\ NoDirect
    /\ text = "Air and naval"
    /\ known = MILEX_FIELDS.categories
    /\ matched = "Naval forces"

\* C7: when some subcategory and the row label contain one another,
\* _match_subcategory returns the first such subcategory in list order,
\* before the total special case and the numeric-prefix rule.
C7_DirectSubcategory ==
    pc = "subcategory_matched" =>
        /\ \A i \in 1..Len(known) :
              (DirectAt(i) /\ \A j \in 1..(i - 1) : ~DirectAt(j))
                  => matched = known[i]
        /\ (text = "1. Personnel" /\ known = MILEX_FIELDS.subcategories)
              => matched = "1. Personnel"

\* a label contained in several subcategories resolves to the first
C7_Witness ==
    /\ pc = "subcategory_matched"
    /\ text = "Other"
    /\ known = MILEX_FIELDS.subcategories
    /\ matched = "2.4 Other"
    /\ Cardinality({i \in 1..Len(known) : DirectAt(i)}) > 1

\* the numerals and periods a name starts with
RECURSIVE LeadingToken(_)
LeadingToken(s) ==
    IF s # "" /\ (isdigit(CharAt(s, 1)) \/ CharAt(s, 1) = ".")
    THEN CharAt(s, 1) \o LeadingToken(Tail(s))
    ELSE ""

\* the names of the list that start with a numeral
Numbered == {i \in 1..Len(known) : isdigit(CharAt(known[i], 1))}

\* the trimmed label begins with the leading token of name i
BeginsWithTokenOf(i) == startswith(strip(text), LeadingToken(known[i]))

\* the label reaches the numeric-prefix rule
ReachesPrefixRule ==
    /\ pc = "subcategory_matched"
    /\ NoDirect
    /\ lower(strip(text)) \notin {"total", "totals"}

\* C8: a label without a direct match that is not "total"/"totals"
\* resolves to a subcategory whose leading numeral/period token it begins
\* with when there is one, and to no match otherwise.
C8_NumericPrefix ==
    ReachesPrefixRule =>
        IF \E i \in Numbered : BeginsWithTokenOf(i)
        THEN \E i \in Numbered : matched = known[i] /\ BeginsWithTokenOf(i)
        ELSE matched = None

\* a numbered label whose descriptive text is not the taxonomy's
C8_Witness ==
    /\ ReachesPrefixRule
    /\ text = "2. O&M"
    /\ known = MILEX_FIELDS.subcategories
    /\ matched = "2. Operations and maintenance"

\* C9: "total" and "totals" in any letter case resolve to the configured
\* subcategory whose name contains "5. total".
C9_Totals ==
    (/\ pc = "subcategory_matched"
     /\ known = MILEX_FIELDS.subcategories
     /\ lower(text) \in {"total", "totals"})
        => /\ matched \in Range(known)
           /\ contains(lower(matched), "5. total")

\* "Totals" resolved by the special case, not by a direct match
C9_Witness ==
    /\ pc = "subcategory_matched"
    /\ known = MILEX_FIELDS.subcategories
    /\ text = "Totals"
    /\ NoDirect
    /\ matched = "5. Total (1+2+3+4)"

-----------------------------------------------------------------------------
(* parse_numeric_value as a function of a text *)

\* cell and heading texts handed to parse_numeric_value
NumericTexts ==
    { "1,234.5", "", "N/A", "12.3.4", "42", "0", "3.14", ".5", "5.", "1 234",
      "1,000,000", "  ", " 7 ", "-", "..", ".", ",", "1,2,3", "0.0", "000",
      "007", "1.50", "12abc", "(12)", "12%", "$5", "0x10", "n/a", "nil",
      "1e3", "1E3", "1 e3", "1.2e-1", "e5", "1e", "-5", "+5", "-0", "+", "+-1",
      "--1", "- 5", "inf", "Infinity", "-inf", "i,n,f", "nan", "NaN", "n a n",
      "1_000", "1__0", "_1", "\t12", "12\n", "\t" }

InitNumeric ==
    /\ MILEX_FIELDS \in Taxonomies
    /\ pc = "parse_numeric_value"
    /\ value_text \in NumericTexts
    /\ numeric_value = NoValue
    /\ FieldsIdle /\ MatchIdle /\ TableIdle /\ PageIdle /\ RunIdle
    /\ ExtractIdle /\ StoreIdle

ParseNumericValue ==
    /\ pc = "parse_numeric_value"
    /\ numeric_value' = parse_numeric_value(value_text)
    /\ pc' = "parsed"
    /\ UNCHANGED <<MILEX_FIELDS, field_idx, field_columns, column_name,
                   found_name, text, known, matched, table, tbl, field_data,
                   value_text, pageVars, runVars, storeVars, extractVars>>

NextNumeric == ParseNumericValue

SpecNumeric == InitNumeric /\ [][NextNumeric]_vars

\* the text without its commas and spaces
Bare(s) == replace(replace(s, ",", ""), " ", "")

\* digits with at most one decimal point
IsDecimalLiteral(s) ==
    /\ \A i \in 1..Len(s) : isdigit(CharAt(s, i)) \/ CharAt(s, i) = "."
    /\ \E i \in 1..Len(s) : isdigit(CharAt(s, i))
    /\ Cardinality({i \in 1..Len(s) : CharAt(s, i) = "."}) <= 1

\* C14: parse_numeric_value returns a number exactly when the text without
\* its commas and spaces is a decimal literal (digits with at most one
\* decimal point) and no value otherwise; "1,234.5" gives 1234.5 and "",
\* "N/A", "12.3.4" give no value.
C14_DecimalOnly ==
    pc = "parsed" =>
        /\ numeric_value # NoValue <=> IsDecimalLiteral(Bare(value_text))
        /\ value_text = "1,234.5" =>
              numeric_value = [num |-> 12345, den |-> 10]
        /\ value_text \in {"", "N/A", "12.3.4"} => numeric_value = NoValue

-----------------------------------------------------------------------------
(* scraper.py: _parse_page *)

BASE_URL == "https://milex-reporting.unoda.org/en/states"

get_country_year_url(country_code, year) ==
    BASE_URL \o "/" \o country_code \o "/" \o ToString(year)

\* What the queries on the document answer.  soup.dt[label] is the answer
\* of find("dt", string=label) followed by find_next_sibling("dd"): no such
\* dt, a dt without a dd after it, or the dd's get_text(strip=True).
NoDt == "<no dt>"
NoDd == "<no dd>"
\* soup.elements are the elements of the document in document order, each
\* <<name, string>>: its tag name and its text (for an h3 its .string, which
\* is NoString when the h3 has more than one child).  The answer of the
\* h3/h1 search is: no h3 with "total expenditure" in its string, no h1
\* after it, or the h1's text.
NoString == "<no string>"
NoH3 == "<no h3>"
NoH1 == "<no h1>"
\* soup.divs are the div elements of the document in document order, each
\* with the tokens of its class attribute (NoClass without the attribute)
\* and the texts of the p elements inside it.  The answer of the search for
\* the loaded report container and its first paragraph is: no container, no
\* paragraph, or the paragraph's get_text(strip=True).
NoClass == << >>
NoDiv == "<no div>"
NoP == "<no p>"

\* value.lstrip(":")
RECURSIVE lstrip_colon(_)
lstrip_colon(s) ==
    IF s # "" /\ CharAt(s, 1) = ":" THEN lstrip_colon(Tail(s)) ELSE s

\* the dt/dd structure: the attribute stays None without a dt or a dd
definition_value(answer) ==
    IF answer \in {NoDt, NoDd} THEN None ELSE answer

\* the loop "for div in currency_divs" from div i; divs[i] holds the texts
\* of the p elements of the div.  None when the attribute is not assigned.
RECURSIVE paragraph_value(_, _, _)
paragraph_value(divs, wanted, i) ==
    IF i > Len(divs) THEN None
    ELSE LET ps == divs[i]
         IN  IF Len(ps) >= 2 /\ contains(lower(ps[1]), wanted)
             THEN LET stripped == strip(lstrip_colon(ps[2]))
                  IN  IF stripped # "" THEN stripped ELSE None
             ELSE paragraph_value(divs, wanted, i + 1)

\* "not x" of an Optional[str]
falsy(x) == x = None \/ x = ""

\* the paragraphs are read whatever the dt/dd structure gave
two_layouts_paragraphs_last(answer, divs, wanted) ==
    LET first == definition_value(answer)
        second == paragraph_value(divs, wanted, 1)
    IN  IF second # None THEN second ELSE first

\* an attribute read from the dt/dd structure, then from the paragraphs
two_layouts(answer, divs, wanted) ==
    LET first == definition_value(answer)
        second == paragraph_value(divs, wanted, 1)
    IN  IF falsy(first) /\ second # None THEN second ELSE first

\* the nil report text
nil_report_expenditure(answer) ==
    IF answer \notin {NoDiv, NoP} /\ answer # "" /\ Len(answer) > 20
    THEN answer
    ELSE None

\* string=lambda x: x and "total expenditure" in x.lower()
is_total_heading(element) ==
    /\ element[1] = "h3"
    /\ element[2] \notin {NoString, ""}
    /\ contains(lower(element[2]), "total expenditure")

\* find(name, ...) from element i on, matches[k] telling whether the test
\* of the search accepts element k: the index of the first element it
\* accepts, 0 when there is none
find_element(matches, i) ==
    LET accepted == { k \in i..Len(matches) : matches[k] }
    IN  IF accepted = {} THEN 0 ELSE Min(accepted)

\* the elements a test accepts
total_headings(elements) ==
    [k \in 1..Len(elements) |-> is_total_heading(elements[k])]

is_h1(element) == element[1] = "h1"

h1s(elements) == [k \in 1..Len(elements) |-> is_h1(elements[k])]

\* only the element right after the h3 is looked at
total_heading_adjacent(elements) ==
    LET total_h3 == find_element(total_headings(elements), 1)
    IN  IF total_h3 = 0 THEN NoH3
        ELSE IF total_h3 + 1 > Len(elements) \/ ~is_h1(elements[total_h3 + 1])
        THEN NoH1
        ELSE elements[total_h3 + 1][2]

\* soup.find("h3", string=...) and total_h3.find_next("h1")
total_heading(elements) ==
    LET total_h3 == find_element(total_headings(elements), 1)
        next_h1 == IF total_h3 = 0 THEN 0
                   ELSE find_element(h1s(elements), total_h3 + 1)
    IN  IF total_h3 = 0 THEN NoH3
        ELSE IF next_h1 = 0 THEN NoH1
        ELSE elements[next_h1][2]

\* " ".join(tokens)
RECURSIVE join(_)
join(tokens) ==
    IF tokens = << >> THEN ""
    ELSE IF Len(tokens) = 1 THEN tokens[1]
    ELSE tokens[1] \o " " \o join(Tail(tokens))

\* lambda x: x and "report" in x and "loaded" in x
report_and_loaded(x) ==
    x # "" /\ contains(x, "report") /\ contains(x, "loaded")

\* class_=function on the multi-valued attribute: the function is tried on
\* each token, then on the tokens joined by spaces
is_report_loaded(div) ==
    /\ div.class # NoClass
    /\ \/ \E k \in 1..Len(div.class) : report_and_loaded(div.class[k])
       \/ report_and_loaded(join(div.class))

\* soup.find("div", class_=...) and nil_report_div.find("p")
report_paragraph(divs) ==
    LET nil_report_div ==
            find_element([k \in 1..Len(divs) |-> is_report_loaded(divs[k])],
                         1)
    IN  IF nil_report_div = 0 THEN NoDiv
        ELSE IF divs[nil_report_div].ps = << >> THEN NoP
        ELSE strip(divs[nil_report_div].ps[1])

\* the total read from the heading pair
total_expenditure_all(answer) ==
    IF answer \in {NoH3, NoH1} THEN NoValue ELSE parse_numeric_value(answer)

\* _parse_milex_table(soup): the loop over the tables from table t
RECURSIVE parse_tables(_, _, _)
parse_tables(fd, tables, t) ==
    IF t > Len(tables) THEN fd
    ELSE parse_tables(parse_table(fd, tables[t]), tables, t + 1)

parse_page(html, country_code, year, url) ==
    [ country |-> country_code,
      year |-> year,
      page_link |-> url,
      national_currency |->
          two_layouts(html.dt["National Currency"], html.currency_divs,
                      "national currency"),
      unit_of_measure |->
          two_layouts(html.dt["Unit of Measure"], html.currency_divs,
                      "unit of measure"),
      total_expenditure_all |->
          total_expenditure_all(total_heading(html.elements)),
      explanatory_remarks |->
          definition_value(html.dt["Explanatory Remarks"]),
      nil_report_expenditure |->
          nil_report_expenditure(report_paragraph(html.divs)),
      field_data |-> parse_tables(EmptyDict, html.tables, 1) ]

\* the definition lists of the documents
DefinitionLists ==
    { [l \in {"National Currency", "Unit of Measure", "Explanatory Remarks"}
          |-> IF l = "National Currency" THEN c
              ELSE IF l = "Unit of Measure" THEN u ELSE r] :
        c \in {NoDt, NoDd, "", "EUR"},
        u \in {NoDt, "", "thousands"},
        r \in {NoDt, "", "See annex"} }

\* the currency-and-unit containers of the documents
CurrencyDivs ==
    { << >>,
      << <<"National currency", ": USD">> >>,
      << <<"Unit of measure:", ":millions">> >>,
      << <<"National currency", "USD">>, <<"Unit of measure", "millions">> >>,
      << <<"National Currency:", ":">>, <<"National currency", "GBP">> >>,
      << <<"National currency">>, <<"NATIONAL CURRENCY", ":: CHF">>,
         <<"Unit of measure", " ">> >>,
      << <<"Explanatory remarks", ": see note 3">> >> }

\* the headings and paragraphs of the documents
ElementLists ==
    { << >>,
      << <<"h3", "Total expenditure">>, <<"h1", "42,000">> >>,
      << <<"h3", "TOTAL EXPENDITURE (all forces)">>, <<"h1", "N/A">> >>,
      << <<"h3", "Total expenditure">>, <<"p", "in thousands">>,
         <<"h1", "42,000">> >>,
      << <<"h1", "42,000">>, <<"h3", "Total expenditure">> >>,
      << <<"h3", "Summary">>, <<"h1", "42,000">> >>,
      << <<"h3", NoString>>, <<"h1", "42,000">> >>,
      << <<"h3", "Total expenditure">>, <<"h1", "N/A">>,
         <<"h3", "Total expenditure">>, <<"h1", "42,000">> >> }

\* the div elements of the documents
DivLists ==
    { << >>,
      << [class |-> <<"report", "loaded">>, ps |-> <<"Nil">>] >>,
      << [class |-> <<"loaded", "report">>,
          ps |-> <<" No military expenditure to report. ", "Nil">>] >>,
      << [class |-> <<"report", "loaded">>,
          ps |-> <<" Nothing to report... ">>] >>,
      << [class |-> <<"report", "loaded">>,
          ps |-> <<"Nil", "No military expenditure to report.">>] >>,
      << [class |-> <<"report">>,
          ps |-> <<"No military expenditure to report.">>] >>,
      << [class |-> NoClass, ps |-> <<"No military expenditure to report.">>],
         [class |-> <<"report", "loaded">>, ps |-> << >>] >>,
      << [class |-> <<"report", "unloaded">>,
          ps |-> <<"The report is still being retrieved.">>] >> }

Pages ==
    [ dt : DefinitionLists,
      currency_divs : CurrencyDivs,
      elements : ElementLists,
      divs : DivLists,
      tables : { << >>, <<ExampleTable>> } ]

ScrapedCountries == {"LTU", "USA"}
ScrapedYear == 2024

InitPage ==
    /\ MILEX_FIELDS \in Taxonomies
    /\ pc = "parse_page"
    /\ soup \in Pages
    /\ page_data = << >>
    /\ FieldsIdle /\ MatchIdle /\ TableIdle /\ NumericIdle /\ RunIdle
    /\ ExtractIdle /\ StoreIdle

ParsePage ==
    /\ pc = "parse_page"
    /\ \E country_code \in ScrapedCountries :
          page_data' = parse_page(soup, country_code, ScrapedYear,
                          get_country_year_url(country_code, ScrapedYear))
    /\ pc' = "page_parsed"
    /\ UNCHANGED <<MILEX_FIELDS, field_idx, field_columns, column_name,
                   found_name, text, known, matched, table, tbl, field_data,
                   numVars, soup, runVars, storeVars, extractVars>>

NextPage == ParsePage

SpecPage == InitPage /\ [][NextPage]_vars

\* the three scalar attributes: their dt label and their paragraph label
ScalarAttributes ==
    { <<"national_currency", "National Currency", "national currency">>,
      <<"unit_of_measure", "Unit of Measure", "unit of measure">>,
      <<"explanatory_remarks", "Explanatory Remarks", "explanatory remarks">> }

\* the value the definition list gives an attribute: its dd text when the
\* dt and the dd are there
FromDefinitionList(a) ==
    IF soup.dt[a[2]] \in {NoDt, NoDd} THEN "" ELSE soup.dt[a[2]]

\* the containers with a label/value paragraph pair for the attribute
PairsFor(a) ==
    { i \in 1..Len(soup.currency_divs) :
        /\ Len(soup.currency_divs[i]) >= 2
        /\ contains(lower(soup.currency_divs[i][1]), a[3]) }

\* the value of the first such pair without its leading colons, "" without
\* a pair
FromParagraphs(a) ==
    IF PairsFor(a) = {} THEN ""
    ELSE strip(lstrip_colon(soup.currency_divs[Min(PairsFor(a))][2]))

\* C19 as claimed: each of the three attributes is the definition-list
\* value when that is not empty, otherwise the paragraph value when that is
\* not empty.
C19_TwoLayouts ==
    pc = "page_parsed" =>
        \A a \in ScalarAttributes :
            /\ FromDefinitionList(a) # "" =>
                  page_data[a[1]] = FromDefinitionList(a)
            /\ (FromDefinitionList(a) = "" /\ FromParagraphs(a) # "") =>
                  page_data[a[1]] = FromParagraphs(a)

\* the attributes with a paragraph layout
TwoLayoutAttributes ==
    { a \in ScalarAttributes : a[1] # "explanatory_remarks" }

\* C19: national currency and unit of measure are the definition-list value
\* when that is not empty, otherwise the value of the first paragraph pair
\* for the attribute, leading colons stripped, when that is not empty;
\* explanatory remarks are the definition-list value and nothing else.
C19_CurrencyAndUnit ==
    pc = "page_parsed" =>
        /\ \A a \in TwoLayoutAttributes :
              /\ FromDefinitionList(a) # "" =>
                    page_data[a[1]] = FromDefinitionList(a)
              /\ (FromDefinitionList(a) = "" /\ FromParagraphs(a) # "") =>
                    page_data[a[1]] = FromParagraphs(a)
        /\ page_data.explanatory_remarks =
              IF soup.dt["Explanatory Remarks"] \in {NoDt, NoDd} THEN None
              ELSE soup.dt["Explanatory Remarks"]

\* a document with both layouts for the currency and only the paragraph
\* layout for the unit: the currency is the definition-list value, the
\* unit the paragraph value without its colon
C19_Witness ==
    /\ pc = "page_parsed"
    /\ soup.dt["National Currency"] = "EUR"
    /\ soup.dt["Unit of Measure"] = NoDt
    /\ soup.currency_divs =
          << <<"National currency", "USD">>, <<"Unit of measure", "millions">> >>
    /\ FromParagraphs(<<"national_currency", "National Currency",
                        "national currency">>) = "USD"
    /\ page_data.national_currency = "EUR"
    /\ page_data.unit_of_measure = "millions"

\* C20: an attribute that neither layout gives a non-empty value is None
\* in the record, and no attribute is ever the empty string.
C20_AbsentNotEmpty ==
    pc = "page_parsed" =>
        \A a \in ScalarAttributes :
            /\ (FromDefinitionList(a) = "" /\ FromParagraphs(a) = "") =>
                  page_data[a[1]] = None
            /\ page_data[a[1]] # ""

\* a heading whose text contains "total expenditure" in any letter case
TotalLabelAt(i) ==
    /\ i \in 1..Len(soup.elements)
    /\ soup.elements[i][1] = "h3"
    /\ soup.elements[i][2] # NoString
    /\ contains(lower(soup.elements[i][2]), "total expenditure")

\* a level-1 heading whose text reads as a number
NumericHeadingAt(j) ==
    /\ j \in 1..Len(soup.elements)
    /\ soup.elements[j][1] = "h1"
    /\ parse_numeric_value(soup.elements[j][2]) # NoValue

\* C21 as claimed: the total is present only when a numeric heading stands
\* right after a total-expenditure heading, and is then that number.
C21_ImmediatelyFollows ==
    pc = "page_parsed" =>
        (page_data.total_expenditure_all # NoValue =>
            \E i \in 1..Len(soup.elements) :
                /\ TotalLabelAt(i)
                /\ NumericHeadingAt(i + 1)
                /\ page_data.total_expenditure_all =
                      parse_numeric_value(soup.elements[i + 1][2]))

\* the first total-expenditure heading and the first level-1 heading after
\* it, wherever that stands
FirstPair(i, j) ==
    /\ TotalLabelAt(i)
    /\ \A k \in 1..(i - 1) : ~TotalLabelAt(k)
    /\ j \in (i + 1)..Len(soup.elements)
    /\ soup.elements[j][1] = "h1"
    /\ \A k \in (i + 1)..(j - 1) : soup.elements[k][1] # "h1"

\* C21: the total is present exactly when the first level-1 heading after
\* the first total-expenditure heading reads as a number, and is then that
\* number; the tables of the document have no part in it.
C21_NextHeading ==
    pc = "page_parsed" =>
        /\ page_data.total_expenditure_all # NoValue =>
              \E i, j \in 1..Len(soup.elements) :
                  /\ FirstPair(i, j)
                  /\ NumericHeadingAt(j)
                  /\ page_data.total_expenditure_all =
                        parse_numeric_value(soup.elements[j][2])
        /\ \A i, j \in 1..Len(soup.elements) :
              (FirstPair(i, j) /\ NumericHeadingAt(j)) =>
                  page_data.total_expenditure_all =
                      parse_numeric_value(soup.elements[j][2])
        /\ (\A i \in 1..Len(soup.elements) : ~TotalLabelAt(i)) =>
              page_data.total_expenditure_all = NoValue

\* a document with a full table whose numeric heading stands behind a
\* paragraph: the total is the heading's number, the fields are the table's
C21_Witness ==
    /\ pc = "page_parsed"
    /\ soup.elements = << <<"h3", "Total expenditure">>,
                          <<"p", "in thousands">>, <<"h1", "42,000">> >>
    /\ soup.tables = <<ExampleTable>>
    /\ page_data.field_data # EmptyDict
    /\ page_data.total_expenditure_all = [num |-> 42000, den |-> 1]

\* the report containers marked "loaded": the divs whose classes include
\* "report" and "loaded"
LoadedReports ==
    { i \in 1..Len(soup.divs) :
        {"report", "loaded"} \subseteq Range(soup.divs[i].class) }

\* the text of the first paragraph of container i, "" without a paragraph
FirstParagraph(i) ==
    IF soup.divs[i].ps = << >> THEN "" ELSE strip(soup.divs[i].ps[1])

\* C22: the nil report is present only if a report container marked
\* "loaded" has a first paragraph of more than 20 characters, and is then
\* that paragraph's text; a document with one such container whose first
\* paragraph is that long has it.
C22_NilReport ==
    pc = "page_parsed" =>
        /\ page_data.nil_report_expenditure # None =>
              \E i \in LoadedReports :
                  /\ Len(FirstParagraph(i)) > 20
                  /\ page_data.nil_report_expenditure = FirstParagraph(i)
        /\ \A i \in LoadedReports :
              (LoadedReports = {i} /\ Len(FirstParagraph(i)) > 20) =>
                  page_data.nil_report_expenditure = FirstParagraph(i)

-----------------------------------------------------------------------------
(* _parse_page called again and again, and from several threads at once *)

MaxThreads == 2         \* threads that call _parse_page
MaxExtractions == 3     \* calls of _parse_page in a behaviour

Threads == 1..MaxThreads

\* a second table that gives the field of ExampleTable another value and
\* adds a field
SecondTable ==
    << <<"Cost category", "Land forces", "UN Peace Keeping">>,
       <<"1. Personnel", "0", "42,000">> >>

\* the documents of the calls: without a table and with two
ExtractedPages ==
    { [dt |-> [l \in {"National Currency", "Unit of Measure",
                      "Explanatory Remarks"} |->
                  IF l = "National Currency" THEN "EUR" ELSE NoDt],
       currency_divs |-> << >>,
       elements |-> << <<"h3", "Total expenditure">>, <<"h1", "42,000">> >>,
       divs |-> << >>,
       tables |-> tables] :
        tables \in { << >>, <<ExampleTable, SecondTable>>,
                     <<SecondTable, ExampleTable>> } }

\* the arguments of the calls: each document for one country, the
\* document without tables for another country as well
ExtractedCalls ==
    { [html |-> html, country_code |-> "LTU"] : html \in ExtractedPages }
    \cup { [html |-> html, country_code |-> "USA"] :
             html \in { h \in ExtractedPages : h.tables = << >> } }

\* a thread outside _parse_page
NoCall == [pc |-> "idle"]

InitExtract ==
    /\ MILEX_FIELDS \in Taxonomies
    /\ pc = "extract"
    /\ extractions = [thread \in Threads |-> NoCall]
    /\ returned = << >>
    /\ FieldsIdle /\ MatchIdle /\ TableIdle /\ NumericIdle /\ PageIdle
    /\ RunIdle /\ StoreIdle

\* calls made so far
Calls ==
    Len(returned) + Cardinality({ t \in Threads : extractions[t] # NoCall })

\* the call keeps what field_data the call returned before it built
StartParsePageKeepingFields(thread) ==
    /\ extractions[thread] = NoCall
    /\ Calls < MaxExtractions
    /\ \E call \in ExtractedCalls :
          extractions' = [extractions EXCEPT ![thread] =
              [ pc |-> "tables",
                html |-> call.html,
                data |-> parse_page([call.html EXCEPT !.tables = << >>],
                            call.country_code, ScrapedYear,
                            get_country_year_url(call.country_code,
                                                 ScrapedYear)),
                tables_done |-> 0,
                field_data |->
                    IF returned = << >> THEN EmptyDict
                    ELSE returned[Len(returned)].data.field_data ]]
    /\ UNCHANGED <<MILEX_FIELDS, pc, field_idx, field_columns, column_name,
                   found_name, text, known, matched, table, tbl, field_data,
                   numVars, pageVars, runVars, storeVars, returned>>

\* a thread calls _parse_page(html, country_code, year, url): the record
\* with its scalar attributes (lines 89-179), then field_data = {} of
\* _parse_milex_table (line 200)
StartParsePage(thread) ==
    /\ extractions[thread] = NoCall
    /\ Calls < MaxExtractions
    /\ \E call \in ExtractedCalls :
          extractions' = [extractions EXCEPT ![thread] =
              [ pc |-> "tables",
                html |-> call.html,
                data |-> parse_page([call.html EXCEPT !.tables = << >>],
                            call.country_code, ScrapedYear,
                            get_country_year_url(call.country_code,
                                                 ScrapedYear)),
                tables_done |-> 0,
                field_data |-> EmptyDict ]]
    /\ UNCHANGED <<MILEX_FIELDS, pc, field_idx, field_columns, column_name,
                   found_name, text, known, matched, table, tbl, field_data,
                   numVars, pageVars, runVars, storeVars, returned>>

\* the mapping being built is one object that all calls write
ParseNextTableShared(thread) ==
    /\ extractions[thread] # NoCall
    /\ extractions[thread].tables_done < Len(extractions[thread].html.tables)
    /\ LET own == extractions[thread]
           built == parse_table(own.field_data,
                                own.html.tables[own.tables_done + 1])
       IN  extractions' =
               [t \in Threads |->
                   IF t = thread
                   THEN [own EXCEPT !.field_data = built,
                                    !.tables_done = @ + 1]
                   ELSE IF extractions[t] = NoCall THEN NoCall
                   ELSE [extractions[t] EXCEPT !.field_data = built]]
    /\ UNCHANGED <<MILEX_FIELDS, pc, field_idx, field_columns, column_name,
                   found_name, text, known, matched, table, tbl, field_data,
                   numVars, pageVars, runVars, storeVars, returned>>

\* one iteration of "for table in tables" in the call of a thread
ParseNextTable(thread) ==
    /\ extractions[thread] # NoCall
    /\ extractions[thread].tables_done < Len(extractions[thread].html.tables)
    /\ LET own == extractions[thread]
       IN  extractions' = [extractions EXCEPT ![thread] =
               [own EXCEPT !.field_data =
                               parse_table(own.field_data,
                                   own.html.tables[own.tables_done + 1]),
                           !.tables_done = @ + 1]]
    /\ UNCHANGED <<MILEX_FIELDS, pc, field_idx, field_columns, column_name,
                   found_name, text, known, matched, table, tbl, field_data,
                   numVars, pageVars, runVars, storeVars, returned>>

\* data["field_data"] = ...; return data.  The entry of returned also keeps
\* the thread and the document.
ReturnData(thread) ==
    /\ extractions[thread] # NoCall
    /\ extractions[thread].tables_done = Len(extractions[thread].html.tables)
    /\ LET own == extractions[thread]
       IN  returned' = Append(returned,
               [ thread |-> thread,
                 html |-> own.html,
                 data |-> [own.data EXCEPT !.field_data = own.field_data] ])
    /\ extractions' = [extractions EXCEPT ![thread] = NoCall]
    /\ UNCHANGED <<MILEX_FIELDS, pc, field_idx, field_columns, column_name,
                   found_name, text, known, matched, table, tbl, field_data,
                   numVars, pageVars, runVars, storeVars>>

NextExtract ==
    \E thread \in Threads :
        \/ StartParsePage(thread)
        \/ ParseNextTable(thread)
        \/ ReturnData(thread)

SpecExtract == InitExtract /\ [][NextExtract]_vars

\* two returned calls had the same document, country code, year and URL
SameArguments(a, b) ==
    /\ returned[a].html = returned[b].html
    /\ returned[a].data.country = returned[b].data.country
    /\ returned[a].data.year = returned[b].data.year
    /\ returned[a].data.page_link = returned[b].data.page_link

\* C23: two calls of _parse_page with the same document, country code,
\* year and URL return equal records, whatever calls were made before,
\* between or beside them.
C23_Deterministic ==
    \A a, b \in 1..Len(returned) :
        SameArguments(a, b) => returned[a].data = returned[b].data

\* the same two-table document extracted twice with a document without
\* tables extracted in between
C23_Witness ==
    /\ Len(returned) = 3
    /\ SameArguments(1, 3)
    /\ Len(returned[1].html.tables) = 2
    /\ returned[2].html.tables = << >>
    /\ returned[1].data.field_data # EmptyDict
    /\ returned[3].data = returned[1].data

\* C24: every call returns the record the extraction gives when it runs
\* alone, in any interleaving with the calls of other threads, and no step
\* of a call changes the taxonomy.
C24_AsAlone ==
    [][ /\ MILEX_FIELDS' = MILEX_FIELDS
        /\ returned' # returned =>
              LET call == returned'[Len(returned')]
              IN  call.data =
                      parse_page(call.html, call.data.country, ScrapedYear,
                          get_country_year_url(call.data.country,
                                               ScrapedYear)) ]_vars

\* a call on a two-table document has returned and two threads are each
\* between the two tables of their documents, with different mappings
C24_Witness ==
    /\ Len(returned) = 1
    /\ Len(returned[1].html.tables) = 2
    /\ returned[1].data.field_data # EmptyDict
    /\ \E t, u \in Threads :
          /\ t # u
          /\ extractions[t] # NoCall /\ extractions[u] # NoCall
          /\ extractions[t].html.tables = <<ExampleTable, SecondTable>>
          /\ extractions[u].html.tables = <<SecondTable, ExampleTable>>
          /\ extractions[t].tables_done = 1
          /\ extractions[u].tables_done = 1
          /\ extractions[t].field_data # extractions[u].field_data

-----------------------------------------------------------------------------
(* database.py: the two tables as mappings from (country, year) *)

\* d.get(key), with the value an absent key gives
get(d, key, absent) == IF key \in DOMAIN d THEN d[key] ELSE absent

\* the row INSERT OR REPLACE writes for a record
expenditure_row(record) ==
    LET fd == get(record, "field_data", EmptyDict)
    IN  [ country |-> get(record, "country", None),
          year |-> get(record, "year", None),
          national_currency |-> get(record, "national_currency", None),
          unit_of_measure |-> get(record, "unit_of_measure", None),
          total_expenditure_all |->
              get(record, "total_expenditure_all", NoValue),
          explanatory_remarks |-> get(record, "explanatory_remarks", None),
          nil_report_expenditure |->
              get(record, "nil_report_expenditure", None),
          single_figure_report_expenditure |->
              get(record, "single_figure_report_expenditure", None),
          page_link |-> get(record, "page_link", None),
          field_columns |->
              [ c \in {field_name_to_column_name(k) : k \in DOMAIN fd} |->
                  fd[CHOOSE k \in DOMAIN fd :
                         field_name_to_column_name(k) = c] ] ]

\* the table after insert_or_update_expenditure(record): UNIQUE(country,
\* year) lets the new row replace the pair's row
insert_or_update_expenditure(rows, record) ==
    put(rows, <<get(record, "country", None), get(record, "year", None)>>,
        expenditure_row(record))

\* the table after update_scraping_status(country, year, status, message)
update_scraping_status(rows, country, year, status, error_message) ==
    put(rows, <<country, year>>,
        [status |-> status, error_message |-> error_message])

\* the None of a query without a row, kept as a record like the rows
NoRow == [none |-> TRUE]

\* get_expenditure(country, year): the row, or None
get_expenditure(rows, country, year) ==
    IF <<country, year>> \in DOMAIN rows THEN rows[<<country, year>>]
    ELSE NoRow

-----------------------------------------------------------------------------
(* database.py: the table expenditures as rows, under INSERT OR REPLACE *)

MaxInserts == 3     \* calls of insert_or_update_expenditure in a behaviour

\* the row the statement inserts: the columns of the record and the id
\* AUTOINCREMENT gives; a column the statement does not name is NULL (None,
\* and for a field column absent from field_columns)
sql_row(id, record) == [c \in {"id"} |-> id] @@ expenditure_row(record)

\* the rows that collide with a new row on PRIMARY KEY (id) or on
\* UNIQUE(country, year)
conflicts(rows, new) ==
    { r \in rows :
        \/ r.id = new.id
        \/ r.country = new.country /\ r.year = new.year }

\* an upsert that updates the columns the statement names and keeps the
\* others of the row it finds
insert_or_merge(rows, new) ==
    LET old == conflicts(rows, new)
        kept == IF old = {} THEN new
                ELSE LET o == CHOOSE r \in old : TRUE
                     IN  [new EXCEPT !.field_columns = @ @@ o.field_columns]
    IN  (rows \ old) \cup {kept}

\* INSERT OR REPLACE: the colliding rows are deleted, the new row inserted
insert_or_replace(rows, new) == (rows \ conflicts(rows, new)) \cup {new}

\* the documents whose records are stored: a full one, an empty one, one
\* with other fields
StoredPages ==
    { [dt |-> [l \in {"National Currency", "Unit of Measure",
                      "Explanatory Remarks"} |-> d],
       currency_divs |-> << >>,
       elements |-> e,
       divs |-> << >>,
       tables |-> t] :
        <<d, e, t>> \in
            { <<"EUR", << <<"h3", "Total expenditure">>, <<"h1", "42,000">> >>,
                <<ExampleTable>> >>,
              <<NoDt, << >>, << >> >>,
              <<NoDt, << >>, <<SecondTable>> >> } }

StoredRecords ==
    { parse_page(page, country_code, ScrapedYear,
                 get_country_year_url(country_code, ScrapedYear)) :
        page \in StoredPages, country_code \in ScrapedCountries }

InitStore ==
    /\ MILEX_FIELDS \in Taxonomies
    /\ pc = "store"
    /\ stored_rows = {}
    /\ inserted = << >>
    /\ FieldsIdle /\ MatchIdle /\ TableIdle /\ NumericIdle /\ PageIdle
    /\ RunIdle /\ ExtractIdle

\* insert_or_update_expenditure(data)
InsertOrUpdateExpenditure ==
    /\ Len(inserted) < MaxInserts
    /\ \E record \in StoredRecords :
          /\ stored_rows' =
                insert_or_replace(stored_rows,
                                  sql_row(Len(inserted) + 1, record))
          /\ inserted' = Append(inserted, record)
    /\ UNCHANGED <<MILEX_FIELDS, pc, field_idx, field_columns, column_name,
                   found_name, text, known, matched, table, tbl, field_data,
                   numVars, pageVars, runVars, extractVars>>

NextStore == InsertOrUpdateExpenditure

SpecStore == InitStore /\ [][NextStore]_vars

\* the calls made for a pair, in order
CallsFor(country_code, yr) ==
    { k \in 1..Len(inserted) :
        inserted[k].country = country_code /\ inserted[k].year = yr }

\* the rows of a pair
RowsFor(country_code, yr) ==
    { r \in stored_rows : r.country = country_code /\ r.year = yr }

StoredScalars ==
    {"national_currency", "unit_of_measure", "total_expenditure_all",
     "explanatory_remarks", "nil_report_expenditure", "page_link"}

\* C29: the table holds at most one row per (country, year), exactly one
\* for a pair that was stored; the scalar columns of that row are those of
\* the last record stored for the pair and its field columns are exactly
\* the fields of that record, so that what only an earlier record had is
\* null.
C29_LastRecordOnly ==
    \A country_code \in ScrapedCountries :
        LET calls == CallsFor(country_code, ScrapedYear)
            rows == RowsFor(country_code, ScrapedYear)
        IN  /\ Cardinality(rows) <= 1
            /\ calls # {} =>
                  /\ Cardinality(rows) = 1
                  /\ \A r \in rows :
                        LET last == inserted[CHOOSE k \in calls :
                                                \A j \in calls : j <= k]
                        IN  /\ \A a \in StoredScalars : r[a] = last[a]
                            /\ DOMAIN r.field_columns =
                                  { field_name_to_column_name(f) :
                                      f \in DOMAIN last.field_data }
                            /\ \A f \in DOMAIN last.field_data :
                                  r.field_columns[field_name_to_column_name(f)]
                                      = last.field_data[f]

\* a full record, then an empty one for the same pair: the row has neither
\* the currency nor the field of the first
C29_Witness ==
    /\ Len(inserted) = 2
    /\ inserted[1].country = "LTU" /\ inserted[2].country = "LTU"
    /\ inserted[1].national_currency = "EUR"
    /\ inserted[1].field_data # EmptyDict
    /\ inserted[2].national_currency = None
    /\ inserted[2].field_data = EmptyDict
    /\ \E r \in stored_rows :
          /\ stored_rows = {r}
          /\ r.id = 2
          /\ r.national_currency = None
          /\ r.field_columns = << >>

-----------------------------------------------------------------------------
(* main.py: MilexOrchestrator.scrape_all and scrape_single *)

MaxYears == 1       \* years in the range start..end of a run

countries_to_scrape == <<"LTU", "USA">>
start == 2024
end == start + MaxYears - 1

total_combinations == Len(countries_to_scrape) * (end - start + 1)

\* the pair the two nested loops reach as number n
country(n) == countries_to_scrape[((n - 1) \div (end - start + 1)) + 1]
year(n) == start + ((n - 1) % (end - start + 1))

\* the pair being attempted
Pair == <<country(current), year(current)>>

\* the pages a fetch may bring: with and without a table, with and without
\* a total heading
FetchedPages ==
    { page \in Pages :
        /\ page.dt = [l \in {"National Currency", "Unit of Measure",
                             "Explanatory Remarks"} |-> NoDt]
        /\ page.currency_divs = << >>
        /\ page.divs = << >>
        /\ page.elements \in
              { << >>,
                << <<"h3", "Total expenditure">>, <<"h1", "42,000">> >> } }

\* str(e) of the exceptions of the browser and of sqlite3
FetchErrors == {"net::ERR_CONNECTION_RESET"}
BrowserErrors == {"chromedriver not found"}
StorageErrors == {"database is locked"}

\* the database a run may start on: empty, holding the first pair from an
\* earlier run, or with the first pair logged "failed" by an earlier run
StoredBefore ==
    expenditure_row(
        parse_page([dt |-> [l \in {"National Currency", "Unit of Measure",
                                   "Explanatory Remarks"} |-> NoDt],
                    currency_divs |-> << >>,
                    elements |-> << <<"h3", "Total expenditure">>,
                                    <<"h1", "42,000">> >>,
                    divs |-> << >>, tables |-> << >>],
                   country(1), year(1),
                   get_country_year_url(country(1), year(1))))

otherVars ==
    <<MILEX_FIELDS, field_idx, field_columns, column_name, found_name, text,
      known, matched, table, tbl, field_data, numVars, soup, extractVars,
      storeVars>>

\* scrape_all(countries, start_year, end_year, resume) on its loops, or
\* scrape_single(country, year) on its call of the scraper
InitRun ==
    /\ MILEX_FIELDS \in Taxonomies
    /\ single \in BOOLEAN
    /\ IF single
       THEN /\ pc = "scrape"
            /\ resume = FALSE
            /\ current \in 1..total_combinations
       ELSE /\ pc = "for_pair"
            /\ resume \in BOOLEAN
            /\ current = 0
    /\ interrupted = FALSE
    /\ error = None
    /\ delays = 0
    /\ \/ expenditures = << >> /\ scraping_metadata = << >>
       \/ /\ expenditures = put(<< >>, <<country(1), year(1)>>, StoredBefore)
          /\ scraping_metadata =
                update_scraping_status(<< >>, country(1), year(1),
                                       "success", None)
       \/ /\ expenditures = << >>
          /\ \E e \in FetchErrors :
                scraping_metadata =
                    update_scraping_status(<< >>, country(1), year(1),
                                           "failed", e)
    /\ fetched = << >>
    /\ rows_before = DOMAIN expenditures
    /\ soup = << >> /\ page_data = << >>
    /\ FieldsIdle /\ MatchIdle /\ TableIdle /\ NumericIdle /\ ExtractIdle
    /\ StoreIdle

\* the loops do not look at the flag
NextPairWhateverTheFlag ==
    /\ pc = "for_pair"
    /\ current < total_combinations
    /\ current' = current + 1
    /\ error' = None
    /\ pc' = IF resume THEN "resume" ELSE "in_progress"
    /\ UNCHANGED <<otherVars, fetched, rows_before, page_data, single, resume,
                   interrupted, delays, expenditures, scraping_metadata>>

\* the head of the loops: the next pair
NextPair ==
    /\ pc = "for_pair"
    /\ ~interrupted
    /\ current < total_combinations
    /\ current' = current + 1
    /\ error' = None
    /\ pc' = IF resume THEN "resume" ELSE "in_progress"
    /\ UNCHANGED <<otherVars, fetched, rows_before, page_data, single, resume,
                   interrupted, delays, expenditures, scraping_metadata>>

\* the loops are over
EndPairs ==
    /\ pc = "for_pair"
    /\ interrupted \/ current = total_combinations
    /\ pc' = "summary"
    /\ UNCHANGED <<otherVars, page_data, runVars>>

\* the pair is skipped when the status log knows it
ResumeLookupByStatus ==
    /\ pc = "resume"
    /\ pc' = IF Pair \in DOMAIN scraping_metadata
             THEN "for_pair"
             ELSE "in_progress"
    /\ UNCHANGED <<otherVars, page_data, runVars>>

\* "if resume": the pair is skipped when it has a row
ResumeLookup ==
    /\ pc = "resume"
    /\ pc' = IF get_expenditure(expenditures, country(current), year(current))
                  # NoRow
             THEN "for_pair"
             ELSE "in_progress"
    /\ UNCHANGED <<otherVars, page_data, runVars>>

\* get_expenditure raises: no handler encloses the call
ResumeLookupRaises ==
    /\ pc = "resume"
    /\ \E e \in StorageErrors : error' = e
    /\ pc' = "raised"
    /\ UNCHANGED <<otherVars, fetched, rows_before, page_data, single, resume,
                   current, interrupted, delays, expenditures,
                   scraping_metadata>>

\* update_scraping_status(country, year, "in_progress")
MarkInProgress ==
    /\ pc = "in_progress"
    /\ scraping_metadata' =
          update_scraping_status(scraping_metadata, country(current),
                                 year(current), "in_progress", None)
    /\ pc' = "scrape"
    /\ UNCHANGED <<otherVars, fetched, rows_before, page_data, single, resume,
                   current, interrupted, error, delays, expenditures>>

\* that update raises: no handler encloses the call
MarkInProgressRaises ==
    /\ pc = "in_progress"
    /\ \E e \in StorageErrors : error' = e
    /\ pc' = "raised"
    /\ UNCHANGED <<otherVars, fetched, rows_before, page_data, single, resume,
                   current, interrupted, delays, expenditures,
                   scraping_metadata>>

\* scrape_country_year: the page is fetched and parsed
Scrape ==
    /\ pc = "scrape"
    /\ \E page \in FetchedPages :
          page_data' = parse_page(page, country(current), year(current),
                          get_country_year_url(country(current), year(current)))
    /\ fetched' = Append(fetched, Pair)
    /\ pc' = "branch"
    /\ UNCHANGED <<otherVars, single, resume, current, interrupted, error,
                   delays, expenditures, scraping_metadata, rows_before>>

\* scrape_country_year: sb.open or a later call in its try block raises
FetchFails ==
    /\ pc = "scrape"
    /\ \E e \in FetchErrors :
          page_data' =
              [ country |-> country(current),
                year |-> year(current),
                page_link |->
                    get_country_year_url(country(current), year(current)),
                error |-> e ]
    /\ fetched' = Append(fetched, Pair)
    /\ pc' = "branch"
    /\ UNCHANGED <<otherVars, single, resume, current, interrupted, error,
                   delays, expenditures, scraping_metadata, rows_before>>

\* scrape_country_year raises: the browser does not start
ScrapeRaises ==
    /\ pc = "scrape"
    /\ \E e \in BrowserErrors : error' = e
    /\ pc' = "handler"
    /\ UNCHANGED <<otherVars, fetched, rows_before, page_data, single, resume,
                   current, interrupted, delays, expenditures,
                   scraping_metadata>>

\* Ctrl+C inside the try block of the pair (the fetch and the three
\* branches): "except KeyboardInterrupt" sets the flag and breaks, and
\* "if self.interrupted: break" leaves the outer loop.  A run gets at most
\* one Ctrl+C.
Interrupt ==
    /\ pc \in {"scrape", "branch", "save_no_data", "log_success"}
    /\ ~single
    /\ interrupted' = TRUE
    /\ pc' = "for_pair"
    /\ UNCHANGED <<otherVars, fetched, rows_before, page_data, single, resume,
                   current, error, delays, expenditures, scraping_metadata>>

\* Ctrl+C in the loops outside that try block (the loop head, the resume
\* lookup, the in_progress update, the handler of Exception, the delay):
\* the outer "except KeyboardInterrupt" sets the flag
InterruptOutside ==
    /\ pc \in {"for_pair", "resume", "in_progress", "handler", "delay"}
    /\ ~single
    /\ ~interrupted
    /\ interrupted' = TRUE
    /\ pc' = "summary"
    /\ UNCHANGED <<otherVars, fetched, rows_before, page_data, single, resume,
                   current, error, delays, expenditures, scraping_metadata>>

\* Ctrl+C in scrape_single: KeyboardInterrupt is no Exception and leaves
\* the method
InterruptSingle ==
    /\ pc \in {"scrape", "branch", "log_success", "handler"}
    /\ single
    /\ error' = "KeyboardInterrupt"
    /\ pc' = "raised"
    /\ UNCHANGED <<otherVars, fetched, rows_before, page_data, single, resume,
                   current, interrupted, delays, expenditures,
                   scraping_metadata>>

\* where an attempt ends: scrape_all goes on to its delay, scrape_single
\* returns
after_attempt == IF single THEN "run_returned" ELSE "delay"

\* the record is stored as well
LogFetchErrorAndSave ==
    /\ pc = "branch"
    /\ "error" \in DOMAIN page_data
    /\ scraping_metadata' =
          update_scraping_status(scraping_metadata, country(current),
                                 year(current), "failed", page_data.error)
    /\ expenditures' = insert_or_update_expenditure(expenditures, page_data)
    /\ pc' = after_attempt
    /\ UNCHANGED <<otherVars, fetched, rows_before, page_data, single, resume,
                   current, interrupted, error, delays>>

\* "if 'error' in data": the failure is logged, nothing is stored
LogFetchError ==
    /\ pc = "branch"
    /\ "error" \in DOMAIN page_data
    /\ scraping_metadata' =
          update_scraping_status(scraping_metadata, country(current),
                                 year(current), "failed", page_data.error)
    /\ pc' = after_attempt
    /\ UNCHANGED <<otherVars, fetched, rows_before, page_data, single, resume,
                   current, interrupted, error, delays, expenditures>>

\* the test of the elif: data has no key "categories"
no_data(record) ==
    /\ falsy(get(record, "categories", None))
    /\ get(record, "total_expenditure_all", NoValue) = NoValue

\* the elif branch of scrape_all: the status first, then the record
LogNoData ==
    /\ pc = "branch"
    /\ ~single
    /\ "error" \notin DOMAIN page_data
    /\ no_data(page_data)
    /\ scraping_metadata' =
          update_scraping_status(scraping_metadata, country(current),
                                 year(current), "no_data", None)
    /\ pc' = "save_no_data"
    /\ UNCHANGED <<otherVars, fetched, rows_before, page_data, single, resume,
                   current, interrupted, error, delays, expenditures>>

SaveNoData ==
    /\ pc = "save_no_data"
    /\ expenditures' = insert_or_update_expenditure(expenditures, page_data)
    /\ pc' = "delay"
    /\ UNCHANGED <<otherVars, fetched, rows_before, page_data, single, resume,
                   current, interrupted, error, delays, scraping_metadata>>

\* the else branch: the record first, then the status
SaveRecord ==
    /\ pc = "branch"
    /\ "error" \notin DOMAIN page_data
    /\ single \/ ~no_data(page_data)
    /\ expenditures' = insert_or_update_expenditure(expenditures, page_data)
    /\ pc' = "log_success"
    /\ UNCHANGED <<otherVars, fetched, rows_before, page_data, single, resume,
                   current, interrupted, error, delays, scraping_metadata>>

LogSuccess ==
    /\ pc = "log_success"
    /\ scraping_metadata' =
          update_scraping_status(scraping_metadata, country(current),
                                 year(current), "success", None)
    /\ pc' = after_attempt
    /\ UNCHANGED <<otherVars, fetched, rows_before, page_data, single, resume,
                   current, interrupted, error, delays, expenditures>>

\* a database call of the three branches raises: "except Exception as e"
StorageRaises ==
    /\ pc \in {"branch", "save_no_data", "log_success"}
    /\ \E e \in StorageErrors : error' = e
    /\ pc' = "handler"
    /\ UNCHANGED <<otherVars, fetched, rows_before, page_data, single, resume,
                   current, interrupted, delays, expenditures,
                   scraping_metadata>>

\* the handler: update_scraping_status(country, year, "failed", str(e))
HandleException ==
    /\ pc = "handler"
    /\ scraping_metadata' =
          update_scraping_status(scraping_metadata, country(current),
                                 year(current), "failed", error)
    /\ pc' = after_attempt
    /\ UNCHANGED <<otherVars, fetched, rows_before, page_data, single, resume,
                   current, interrupted, error, delays, expenditures>>

\* the update inside the handler raises: nothing encloses the handler
HandlerRaises ==
    /\ pc = "handler"
    /\ \E e \in StorageErrors : error' = e
    /\ pc' = "raised"
    /\ UNCHANGED <<otherVars, fetched, rows_before, page_data, single, resume,
                   current, interrupted, delays, expenditures,
                   scraping_metadata>>

\* "if not self.interrupted: time.sleep(self.delay)"
Delay ==
    /\ pc = "delay"
    /\ delays' = IF interrupted THEN delays ELSE delays + 1
    /\ pc' = "for_pair"
    /\ UNCHANGED <<otherVars, fetched, rows_before, page_data, single, resume,
                   current, interrupted, error, expenditures,
                   scraping_metadata>>

\* the summary is printed and scrape_all returns
Summary ==
    /\ pc = "summary"
    /\ pc' = "run_returned"
    /\ UNCHANGED <<otherVars, page_data, runVars>>

NextRun ==
    \/ NextPair \/ EndPairs
    \/ ResumeLookup \/ ResumeLookupRaises
    \/ MarkInProgress \/ MarkInProgressRaises
    \/ Scrape \/ FetchFails \/ ScrapeRaises
    \/ Interrupt \/ InterruptOutside \/ InterruptSingle
    \/ LogFetchError \/ LogNoData \/ SaveNoData \/ SaveRecord \/ LogSuccess
    \/ StorageRaises \/ HandleException \/ HandlerRaises
    \/ Delay \/ Summary

SpecRun == InitRun /\ [][NextRun]_vars

\* a run that can leave its loops or print its summary does so
SpecRunFair == SpecRun /\ WF_vars(EndPairs) /\ WF_vars(Summary)

\* the attempt of the pair in scrape_all got a record without an error and
\* went through its branch without an exception
AttemptDone ==
    /\ pc = "delay"
    /\ error = None
    /\ "error" \notin DOMAIN page_data

\* C16: a fetched record without an error is logged "no_data" exactly when
\* its field_data is empty and its total is absent, "success" otherwise,
\* never "failed", and it is stored in expenditures in both cases.
C16_NoDataStatus ==
    AttemptDone =>
        /\ Pair \in DOMAIN scraping_metadata
        /\ scraping_metadata[Pair].status =
              IF /\ page_data.field_data = EmptyDict
                 /\ page_data.total_expenditure_all = NoValue
              THEN "no_data"
              ELSE "success"
        /\ Pair \in DOMAIN expenditures
        /\ expenditures[Pair] = expenditure_row(page_data)

\* the record scrape_country_year returns for a failed fetch
IsErrorRecord ==
    /\ DOMAIN page_data = {"country", "year", "page_link", "error"}
    /\ page_data.country = country(current)
    /\ page_data.year = year(current)
    /\ page_data.page_link =
          get_country_year_url(country(current), year(current))
    /\ page_data.error \in FetchErrors

\* C17: after a failed fetch the record has exactly the keys country, year,
\* page_link and error; the orchestrator's step on it logs the pair
\* "failed" with the record's error text, and no step of the pair's attempt
\* inserts or changes a row of expenditures.
C17_FailedFetch ==
    /\ []((pc = "branch" /\ "error" \in DOMAIN page_data) => IsErrorRecord)
    /\ [][(pc \in {"scrape", "branch", "handler", "delay"}
              /\ "error" \in DOMAIN page_data') =>
            /\ expenditures' = expenditures
            /\ (pc = "branch" /\ pc' = after_attempt) =>
                  scraping_metadata' =
                      put(scraping_metadata, Pair,
                          [status |-> "failed",
                           error_message |-> page_data.error])]_vars

\* a failed fetch of a pair without a row has been logged
C17_Witness ==
    /\ pc = "delay"
    /\ ~single
    /\ error = None
    /\ IsErrorRecord
    /\ scraping_metadata[Pair] =
          [status |-> "failed", error_message |-> "net::ERR_CONNECTION_RESET"]
    /\ Pair \notin DOMAIN expenditures

\* C18: a failure of the fetch or of a storage operation ends only the
\* pair's attempt: scrape_all never ends by an exception, and an attempt
\* that met a failure leaves the pair logged "failed" and the loop goes on.
C18_FailuresContained ==
    ~single =>
        /\ pc # "raised"
        /\ (pc = "delay" /\ (error # None \/ "error" \in DOMAIN page_data)) =>
              /\ Pair \in DOMAIN scraping_metadata
              /\ scraping_metadata[Pair].status = "failed"

\* the pairs of the range
Pairs == { <<country(n), year(n)>> : n \in 1..total_combinations }

\* the step ends neither by an exception nor by Ctrl+C
Undisturbed == pc' \notin {"raised", "summary"} /\ interrupted' = interrupted

\* C25: in scrape_all with resume, the lookup of a pair with a row goes
\* straight back to the loop head: nothing is fetched, logged, stored or
\* waited for, and no pair that had a row at the start is ever fetched or
\* has its row or log entry changed; the lookup of a pair without a row,
\* whatever its status, goes on to the attempt.  Without resume every pair
\* goes from the loop head to its attempt, and a run that ends without an
\* interrupt has requested every pair it did not skip unless the browser
\* failed to start.
C25_ResumeSkips ==
    /\ [][ /\ (pc = "resume" /\ Undisturbed) =>
                IF Pair \in DOMAIN expenditures
                THEN /\ pc' = "for_pair"
                     /\ UNCHANGED <<fetched, delays, expenditures,
                                    scraping_metadata, page_data>>
                ELSE pc' = "in_progress"
           /\ (pc = "for_pair" /\ current' # current /\ Undisturbed) =>
                pc' = IF resume THEN "resume" ELSE "in_progress"
           /\ (~single /\ resume) =>
                \A pair \in rows_before :
                    /\ expenditures'[pair] = expenditures[pair]
                    /\ scraping_metadata'[pair] = scraping_metadata[pair]
         ]_vars
    /\ []((~single /\ resume) => Range(fetched) \cap rows_before = {})
    /\ []((pc = "run_returned" /\ ~single /\ ~interrupted) =>
            \A pair \in Pairs :
                (~resume \/ pair \notin rows_before) =>
                    \/ pair \in Range(fetched)
                    \/ /\ pair \in DOMAIN scraping_metadata
                       /\ scraping_metadata[pair].error_message
                              \in BrowserErrors)

\* a run with resume has returned: the pair with a row was skipped, the
\* other pairs were requested and a delay was taken after each of them
C25_Witness ==
    /\ pc = "run_returned"
    /\ ~single /\ resume /\ ~interrupted
    /\ rows_before = {<<country(1), year(1)>>}
    /\ expenditures[<<country(1), year(1)>>] = StoredBefore
    /\ scraping_metadata[<<country(1), year(1)>>].status = "success"
    /\ Range(fetched) = Pairs \ rows_before
    /\ delays = total_combinations - 1

\* C26: a label that reaches the numeric-prefix rule and whose complete
\* leading numeral/period token is the token of a subcategory resolves to
\* a subcategory with that token ("1.1 ..." to "1.1 Conscripts", not to
\* "1. Personnel").
C26_CompleteToken ==
    ReachesPrefixRule =>
        \A i \in Numbered :
            LeadingToken(known[i]) = LeadingToken(strip(text)) =>
                /\ matched # None
                /\ LeadingToken(matched) = LeadingToken(strip(text))

\* the run has ended, by its return or by an exception
RunEnded == pc \in {"run_returned", "raised"}

\* C27: in scrape_all a pair is logged "in_progress" when its fetch starts,
\* an attempt that ends without an interrupt leaves it "success", "failed"
\* or "no_data", and when a run that was not interrupted has ended no pair
\* is left "in_progress".
C27_NoneLeftInProgress ==
    ~single =>
        /\ pc = "scrape" =>
              /\ Pair \in DOMAIN scraping_metadata
              /\ scraping_metadata[Pair].status = "in_progress"
        /\ pc = "delay" =>
              /\ Pair \in DOMAIN scraping_metadata
              /\ scraping_metadata[Pair].status
                    \in {"success", "failed", "no_data"}
        /\ (RunEnded /\ ~interrupted) =>
              \A pair \in DOMAIN scraping_metadata :
                  scraping_metadata[pair].status # "in_progress"

\* C28: when a run has ended, every pair logged "success" or "no_data" has
\* a row in expenditures, and a pair logged "failed" has a row only if it
\* had one before the run, from an earlier attempt.
C28_StatusAndRows ==
    RunEnded =>
        \A pair \in DOMAIN scraping_metadata :
            /\ scraping_metadata[pair].status \in {"success", "no_data"} =>
                  pair \in DOMAIN expenditures
            /\ (/\ scraping_metadata[pair].status = "failed"
                /\ pair \in DOMAIN expenditures) =>
                  pair \in rows_before

====
